---------------------------- MODULE Spec2Model ----------------------------
(***************************************************************************)
(* A model of the MPS quantum-circuit emulator: the context-keyed RNG      *)
(* (crates/rng), the MPS tensor core (crates/tn), measurement, noise and   *)
(* shot estimators (crates/quantum), the noisy-VQE trajectory fan-out      *)
(* (crates/simulator) and the brickwork driver (bins/chi_sweep).           *)
(*                                                                         *)
(* Numbers.  A complex double is modelled exactly as a Gaussian integer    *)
(* <<re, im>> times the square root of a positive rational that a tensor   *)
(* (or a gate) carries as its field q = <<num, den>>: value = g * sqrt(q). *)
(* Every value the modelled gates and the collapse produce has this form,  *)
(* so no rounding is modelled.  SHAKE256 (crate sha3) and the thin SVD     *)
(* (crate faer) are libraries outside the repository: the first is         *)
(* modelled by a small deterministic sponge, the second by a choice among  *)
(* the factorisations the shapes and the rank of the matrix allow.         *)
(*                                                                         *)
(* A sequence built as [i \in 1..n |-> e] is written with a trailing        *)
(* \o <<>>: the value is the same and TLC holds it as a tuple whose         *)
(* entries are computed once.                                              *)
(***************************************************************************)
EXTENDS Integers, Sequences, FiniteSets, TLC

VARIABLES
    rngs,       \* SpecRng: instance -> [state, step], the ONDRng fields
    rngSeed,    \* SpecRng: instance -> the seed bytes it was built from
    ctxLog,     \* SpecRng: instance -> the context tags of its calls so far
    outLog,     \* SpecRng: instance -> the values its calls returned
    psi,        \* the caller's MPS: its sites, a sequence of Tensor3
    rng,        \* the caller's ONDRng fields [state, step]
    runTrunc,   \* the Truncation [max_bond, cutoff] of the run
    last,       \* the last operation: its name, site, the sites before it, ...
    nOps,       \* the number of operations so far
    pos,        \* SpecBrick: [depth, start, i], where the brickwork driver stands
    frame,      \* SpecShots: the locals of the estimator call: psi, psi_copy, ...;
                \* SpecOverlap: the second MPS of the caller
    est,        \* SpecShots: the call made, the caller's MPS at the call, the value
    traj,       \* SpecVqe: trajectory -> its closure's locals
    trng,       \* SpecVqe: trajectory -> the fields of its ONDRng
    result      \* SpecVqe: the call's inputs and, once returned, its value

rngVars == <<rngs, rngSeed, ctxLog, outLog>>
mpsVars == <<psi, rng, runTrunc, last, nOps>>
brickVars == <<pos>>
shotVars == <<frame, est>>
vqeVars == <<traj, trng, result>>

vars == <<rngs, rngSeed, ctxLog, outLog, psi, rng, runTrunc, last, nOps,
          pos, frame, est, traj, trng, result>>

(***************************************************************************)
(* Byte strings                                                            *)
(***************************************************************************)
Bytes == 0..255

OND_INIT == <<79, 78, 68, 95, 73, 78, 73, 84>>
QSIM == <<81, 83, 73, 77>>
SKIP == <<83, 75, 73, 80>>
RZ0 == <<82, 90, 48>>
RX0 == <<82, 88, 48>>
RZ1 == <<82, 90, 49>>
RZ2 == <<82, 90, 50>>
RX1 == <<82, 88, 49>>
RZ3 == <<82, 90, 51>>
MEASURE_Z == <<77, 69, 65, 83, 85, 82, 69, 95, 90>>
DEPOL_1Q == <<68, 69, 80, 79, 76, 95, 49, 81>>

\* "seed" and "shots", the seeds of the repository's tests
SeedSeed == <<115, 101, 101, 100>>
SeedShots == <<115, 104, 111, 116, 115>>

\* n.to_be_bytes() cut to its len low-order bytes, big-endian
RECURSIVE BeBytes(_, _)
BeBytes(n, len) ==
    IF len = 0 THEN <<>> ELSE Append(BeBytes(n \div 256, len - 1), n % 256)

\* the decimal digits of n as ASCII bytes, as format!("{}", n) writes them
RECURSIVE Decimal(_)
Decimal(n) ==
    IF n < 10 THEN <<48 + n>> ELSE Append(Decimal(n \div 10), 48 + (n % 10))

(***************************************************************************)
(* shake: SHAKE256 over the concatenation of the parts, reading outLen     *)
(* bytes.  The sponge below stands for the sha3 crate: it absorbs the      *)
(* concatenated bytes into one accumulator and squeezes every output byte  *)
(* from it.                                                                *)
(***************************************************************************)
SpongeMod == 32749
SpongeMul == 263

\* SpongeMul^n modulo SpongeMod
RECURSIVE PowMul(_)
PowMul(n) ==
    IF n = 0 THEN 1
    ELSE LET h == PowMul(n \div 2)
             sq == (h * h) % SpongeMod
         IN  IF n % 2 = 0 THEN sq ELSE (sq * SpongeMul) % SpongeMod

\* the bytes lo..hi absorbed into a zero accumulator: a polynomial in
\* SpongeMul, split in halves to keep the evaluation shallow
RECURSIVE AbsorbRange(_, _, _)
AbsorbRange(bytes, lo, hi) ==
    IF lo > hi THEN 0
    ELSE IF lo = hi THEN (bytes[lo] + 1) % SpongeMod
    ELSE LET mid == (lo + hi) \div 2
         IN  (AbsorbRange(bytes, lo, mid) * PowMul(hi - mid)
                + AbsorbRange(bytes, mid + 1, hi)) % SpongeMod

Absorb(bytes) == (PowMul(Len(bytes)) + AbsorbRange(bytes, 1, Len(bytes))) % SpongeMod

Squeeze(acc, outLen) ==
    [j \in 1..outLen |-> (((acc * (2 * j + 75) + 91 * j * j + 74) % SpongeMod) \div 7) % 256]
        \o <<>>

RECURSIVE ConcatAll(_)
ConcatAll(parts) ==
    IF parts = <<>> THEN <<>> ELSE Head(parts) \o ConcatAll(Tail(parts))

shake(parts, outLen) == Squeeze(Absorb(ConcatAll(parts)), outLen)

(***************************************************************************)
(* ONDRng                                                                  *)
(***************************************************************************)
StateLen == 32
OutLen == 8
StepLen == 8
SkipBelow == 16

\* the number of f64 steps between 0 and 1 the model keeps: a u64 converted to
\* f64 keeps its 53 leading bits, the model its 16 leading bits, both rounding
\* to nearest, ties to even; dividing by u64::MAX as f64 = 2^64 is then exact
F64One == 65536

AllZero(bytes, i) == \A j \in i..Len(bytes) : bytes[j] = 0

\* (u64::from_be_bytes(out) as f64) / (u64::MAX as f64), as a multiple of 1/F64One
ToUnitF64(out) ==
    LET top == out[1] * 256 + out[2]
        up == \/ out[3] > 128
              \/ out[3] = 128 /\ ~AllZero(out, 4)
              \/ out[3] = 128 /\ AllZero(out, 4) /\ top % 2 = 1
    IN  IF up THEN top + 1 ELSE top

ONDRngNew(seed) == [state |-> shake(<<seed, OND_INIT>>, StateLen), step |-> 0]

\* a next_f64 whose state absorbs the context tag as well
AdvanceStateKeyed(state, step, ctx) ==
    shake(<<state, BeBytes(step, StepLen), QSIM, ctx>>, StateLen)

\* the state next_f64 writes first: H(state, step_be, "QSIM") with the
\* already-incremented step; the context tag is no part of it
AdvanceState(state, step, ctx) == shake(<<state, BeBytes(step, StepLen), QSIM>>, StateLen)

\* next_f64(ctx) on the fields r: the fields after the call and the value returned
NextF64(r, ctx) ==
    LET step1 == r.step + 1
        st1 == AdvanceState(r.state, step1, ctx)
        out == shake(<<st1, ctx>>, OutLen)
        st2 == IF st1[1] < SkipBelow THEN shake(<<st1, SKIP>>, StateLen) ELSE st1
    IN  [rng |-> [state |-> st2, step |-> step1], value |-> ToUnitF64(out)]

(***************************************************************************)
(* Numbers: Gaussian integers <<re, im>> and positive rationals <<num, den>>*)
(***************************************************************************)
CZero == <<0, 0>>
COne == <<1, 0>>
CAdd(a, b) == <<a[1] + b[1], a[2] + b[2]>>
CMul(a, b) == <<a[1] * b[1] - a[2] * b[2], a[1] * b[2] + a[2] * b[1]>>
CConj(a) == <<a[1], -a[2]>>
CScale(n, a) == <<n * a[1], n * a[2]>>

RECURSIVE CSum(_)
CSum(terms) ==
    IF terms = <<>> THEN CZero ELSE CAdd(Head(terms), CSum(Tail(terms)))

RECURSIVE ISum(_)
ISum(terms) == IF terms = <<>> THEN 0 ELSE Head(terms) + ISum(Tail(terms))

Abs(n) == IF n < 0 THEN -n ELSE n

RECURSIVE Gcd(_, _)
Gcd(a, b) == IF b = 0 THEN a ELSE Gcd(b, a % b)

QOne == <<1, 1>>
QReduce(q) == LET g == Gcd(q[1], q[2]) IN <<q[1] \div g, q[2] \div g>>
QMul(a, b) == QReduce(<<a[1] * b[1], a[2] * b[2]>>)
QInv(a) == <<a[2], a[1]>>

\* the greatest common divisor of the components of the entries i..Len(data)
RECURSIVE DataGcd(_, _)
DataGcd(data, i) ==
    IF i > Len(data) THEN 0
    ELSE Gcd(Gcd(Abs(data[i][1]), Abs(data[i][2])), DataGcd(data, i + 1))

(***************************************************************************)
(* Tensor3: dl, dp, dr and dl*dp*dr entries, r fastest, then p, then l.    *)
(* The entries are data[i] * sqrt(q); Canon keeps data primitive, so equal *)
(* tensors have equal records.                                             *)
(***************************************************************************)
Canon(t) ==
    LET g == DataGcd(t.data, 1)
    IN  IF g = 0 THEN [t EXCEPT !.q = QOne]
        ELSE [t EXCEPT !.data = [i \in 1..Len(t.data) |->
                                    <<t.data[i][1] \div g, t.data[i][2] \div g>>] \o <<>>,
                       !.q = QMul(t.q, <<g * g, 1>>)]

\* Tensor3::idx
idx(t, l, p, r) == (l * t.dp + p) * t.dr + r

\* Tensor3::get: the Gaussian-integer part of the entry
Get(t, l, p, r) == t.data[idx(t, l, p, r) + 1]

\* Tensor3::zeros followed by one set(l, p, r, entry[l, p, r]) for every index
Filled(dl, dp, dr, entry, q) ==
    Canon([dl |-> dl, dp |-> dp, dr |-> dr,
           data |-> [i \in 1..(dl * dp * dr) |->
                        entry[(i - 1) \div (dp * dr), ((i - 1) \div dr) % dp, (i - 1) % dr]]
                    \o <<>>,
           q |-> q])

Dims(t) == <<t.dl, t.dp, t.dr>>

\* MPS::new_zero: n sites of shape (1, 2, 1) holding |0>
NewZero(n) ==
    LET Ket0 == [l \in {0}, p \in {0, 1}, r \in {0} |-> IF p = 0 THEN COne ELSE CZero]
    IN  [k \in 1..n |-> Filled(1, 2, 1, Ket0, QOne)] \o <<>>

\* sites[k], k counted from 0 as in the source
Site(sites, k) == sites[k + 1]

(***************************************************************************)
(* Gates: a matrix of Gaussian integers m (rows and columns from 1) and    *)
(* the scale q, the entries being m[i][j] * sqrt(q)                        *)
(***************************************************************************)
hadamard == [m |-> << <<COne, COne>>, <<COne, <<-1, 0>> >> >>, q |-> <<1, 2>>]
pauli_x == [m |-> << <<CZero, COne>>, <<COne, CZero>> >>, q |-> QOne]
pauli_y == [m |-> << <<CZero, <<0, -1>> >>, << <<0, 1>>, CZero>> >>, q |-> QOne]
pauli_z == [m |-> << <<COne, CZero>>, <<CZero, <<-1, 0>> >> >>, q |-> QOne]
cnot == [m |-> << <<COne, CZero, CZero, CZero>>,
                  <<CZero, COne, CZero, CZero>>,
                  <<CZero, CZero, CZero, COne>>,
                  <<CZero, CZero, COne, CZero>> >>, q |-> QOne]
cz == [m |-> << <<COne, CZero, CZero, CZero>>,
                <<CZero, COne, CZero, CZero>>,
                <<CZero, CZero, COne, CZero>>,
                <<CZero, CZero, CZero, <<-1, 0>> >> >>, q |-> QOne]

\* cos and sin of a half angle j * pi/4, j in 0..4, as integers times sqrt(q)
HalfAngle(j) ==
    CASE j = 0 -> [c |-> 1, s |-> 0, q |-> QOne]
      [] j = 1 -> [c |-> 1, s |-> 1, q |-> <<1, 2>>]
      [] j = 2 -> [c |-> 0, s |-> 1, q |-> QOne]
      [] j = 3 -> [c |-> -1, s |-> 1, q |-> <<1, 2>>]
      [] OTHER -> [c |-> -1, s |-> 0, q |-> QOne]

\* rx(theta) with theta/2 = j * pi/4
rx(j) ==
    LET h == HalfAngle(j)
    IN  [m |-> << << <<h.c, 0>>, <<0, -h.s>> >>, << <<0, -h.s>>, <<h.c, 0>> >> >>, q |-> h.q]

\* rz(theta) with theta/2 = j * pi/4
rz(j) ==
    LET h == HalfAngle(j)
    IN  [m |-> << << <<h.c, -h.s>>, CZero>>, <<CZero, <<h.c, h.s>> >> >>, q |-> h.q]

(***************************************************************************)
(* MPS::apply_1q                                                           *)
(***************************************************************************)
\* the tensor apply_1q builds from site s and the 2x2 matrix u
Apply1qSite(s, u) ==
    LET Out == [l \in 0..(s.dl - 1), p \in 0..(s.dp - 1), r \in 0..(s.dr - 1) |->
                   CSum([pp \in 1..2 |-> CMul(u.m[p + 1][pp], Get(s, l, pp - 1, r))] \o <<>>)]
    IN  Filled(s.dl, s.dp, s.dr, Out, QMul(s.q, u.q))

\* apply_1q writing its result to every site instead of site k alone
Apply1qEvery(sites, k, u) == [i \in 1..Len(sites) |-> Apply1qSite(sites[i], u)]

\* self.sites[k] = out
Apply1q(sites, k, u) == [sites EXCEPT ![k + 1] = Apply1qSite(Site(sites, k), u)]

(***************************************************************************)
(* MPS::apply_2q_svd                                                       *)
(***************************************************************************)
\* the two-site block: theta[row][col], row = l*2 + p1, col = p2*dr + r, its
\* entries being m[row][col] * sqrt(q)
Theta(a, b, u) ==
    LET dl == a.dl
        dr == b.dr
        chi == a.dr
        Entry(l, p1, p2, r) ==
            CSum([t \in 1..(chi * 4) |->
                    LET m == (t - 1) \div 4
                        q1 == ((t - 1) \div 2) % 2
                        q2 == (t - 1) % 2
                    IN  CMul(CMul(u.m[p1 * 2 + p2 + 1][q1 * 2 + q2 + 1], Get(a, l, q1, m)),
                             Get(b, m, q2, r))] \o <<>>)
    IN  [rows |-> dl * 2, cols |-> 2 * dr, q |-> QMul(QMul(a.q, b.q), u.q),
         m |-> [row \in 1..(dl * 2) |-> [col \in 1..(2 * dr) |->
                  Entry((row - 1) \div 2, (row - 1) % 2, (col - 1) \div dr, (col - 1) % dr)]
                  \o <<>>] \o <<>>]

NonzeroRow(theta, row) == \E col \in 1..theta.cols : theta.m[row][col] # CZero
NonzeroCol(theta, col) == \E row \in 1..theta.rows : theta.m[row][col] # CZero

Min(a, b) == IF a < b THEN a ELSE b

\* the indices 1..n with those of the set first in front, each group ascending
Ordered(n, first) ==
    SelectSeq([i \in 1..n |-> i], LAMBDA i : i \in first)
        \o SelectSeq([i \in 1..n |-> i], LAMBDA i : i \notin first)

SigmaLevels == {0, 1, 2}

\* theta.thin_svd(): what the faer crate may return.  The singular values are
\* min(rows, cols) levels, non-increasing, positive only up to the rank the
\* nonzero rows and columns allow, the first positive iff theta is nonzero;
\* the columns of U and V are the unit vectors of theta's rows and columns,
\* its nonzero ones first.  The levels are counted in units of 1 (q = 1).
SvdResults(theta) ==
    LET n == Min(theta.rows, theta.cols)
        nzRows == {row \in 1..theta.rows : NonzeroRow(theta, row)}
        nzCols == {col \in 1..theta.cols : NonzeroCol(theta, col)}
        nzr == Cardinality(nzRows)
        nzc == Cardinality(nzCols)
        rowOrder == Ordered(theta.rows, nzRows)
        colOrder == Ordered(theta.cols, nzCols)
    IN  { [s |-> sv, q |-> QOne,
           u |-> [row \in 1..theta.rows |-> [m \in 1..n |->
                    IF rowOrder[m] = row THEN COne ELSE CZero] \o <<>>] \o <<>>,
           v |-> [col \in 1..theta.cols |-> [m \in 1..n |->
                    IF colOrder[m] = col THEN COne ELSE CZero] \o <<>>] \o <<>>] :
          sv \in { f \in [1..n -> SigmaLevels] :
                     /\ \A i \in 1..(n - 1) : f[i] >= f[i + 1]
                     /\ \A i \in 1..n : i > Min(nzr, nzc) => f[i] = 0
                     /\ (f[1] > 0) = (nzr > 0) } }

\* the Gaussian integers of modulus 1
Units == {<<1, 0>>, <<-1, 0>>, <<0, 1>>, <<0, -1>>}

\* the rows x n matrices whose columns are distinct unit vectors, each times a
\* unit: the matrices with orthonormal columns among the Gaussian integers
Monomial(rows, n) ==
    { [row \in 1..rows |-> [m \in 1..n |-> IF f[m] = row THEN ph[m] ELSE CZero] \o <<>>]
          \o <<>> :
      f \in {g \in [1..n -> 1..rows] : \A i, j \in 1..n : g[i] = g[j] => i = j},
      ph \in [1..n -> Units] }

\* (U diag(s) V^H)[row][col]
SvdProduct(sv, u, v, row, col) ==
    CSum([m \in 1..Len(sv) |-> CScale(sv[m], CMul(u[row][m], CConj(v[col][m])))] \o <<>>)

\* theta.thin_svd() for a block whose factors lie among the Gaussian integers
\* (the CNOT of a product of |0>, |1>, |+> states): every [s, u, v] with
\* orthonormal columns in u and v, s non-increasing and non-negative, and
\* U diag(s) V^H = theta.  The singular values are s[i] * sqrt(q).
ThinSvdExact(theta) ==
    LET n == Min(theta.rows, theta.cols)
        all == { [s |-> sv \o <<>>, q |-> theta.q, u |-> u, v |-> v] :
                 sv \in {f \in [1..n -> 0..1] : \A i \in 1..(n - 1) : f[i] >= f[i + 1]},
                 u \in Monomial(theta.rows, n), v \in Monomial(theta.cols, n) }
    IN  { svd \in all :
            \A row \in 1..theta.rows, col \in 1..theta.cols :
                SvdProduct(svd.s, svd.u, svd.v, row, col) = theta.m[row][col] }

\* the truncation loop with >= in place of > on the cutoff
RECURSIVE KeptLoopGe(_, _, _, _)
KeptLoopGe(s, trunc, i, kept) ==
    IF i > Len(s) THEN kept
    ELSE KeptLoopGe(s, trunc, i + 1,
                    IF s[i] >= trunc.cutoff /\ kept < trunc.max_bond THEN kept + 1 ELSE kept)

\* the truncation loop with <= in place of < on max_bond
RECURSIVE KeptLoopLe(_, _, _, _)
KeptLoopLe(s, trunc, i, kept) ==
    IF i > Len(s) THEN kept
    ELSE KeptLoopLe(s, trunc, i + 1,
                    IF s[i] > trunc.cutoff /\ kept <= trunc.max_bond THEN kept + 1 ELSE kept)

\* for i in 0..s.nrows(): if sv > trunc.cutoff && kept < trunc.max_bond { kept += 1 }
RECURSIVE KeptLoop(_, _, _, _)
KeptLoop(s, trunc, i, kept) ==
    IF i > Len(s) THEN kept
    ELSE KeptLoop(s, trunc, i + 1,
                  IF s[i] > trunc.cutoff /\ kept < trunc.max_bond THEN kept + 1 ELSE kept)

\* kept after the loop and the "if kept == 0 { kept = 1 }" that follows it
Kept(s, trunc) ==
    LET kept == KeptLoop(s, trunc, 1, 0) IN IF kept = 0 THEN 1 ELSE kept

\* new_a[l, p, m] = u_mat(l*2 + p, m) * s_vals[m], the singular values being
\* s[m] * sqrt(q)
NewA(svd, dl, kept) ==
    LET Entry == [l \in 0..(dl - 1), p \in 0..1, m \in 0..(kept - 1) |->
                     CScale(svd.s[m + 1], svd.u[l * 2 + p + 1][m + 1])]
    IN  Filled(dl, 2, kept, Entry, svd.q)

\* new_b built with its left and right dimensions exchanged
NewBTransposed(svd, kept, dr) ==
    LET Entry == [r \in 0..(dr - 1), p \in 0..1, m \in 0..(kept - 1) |->
                     CConj(svd.v[p * dr + r + 1][m + 1])]
    IN  Filled(dr, 2, kept, Entry, QOne)

\* new_b[m, p, r] = conj(v_mat(p*dr + r, m))
NewB(svd, kept, dr) ==
    LET Entry == [m \in 0..(kept - 1), p \in 0..1, r \in 0..(dr - 1) |->
                     CConj(svd.v[p * dr + r + 1][m + 1])]
    IN  Filled(kept, 2, dr, Entry, QOne)

\* the two assignments that end apply_2q_svd, the second one a site too far
ReplacePairShifted(sites, k, newA, newB) ==
    [i \in 1..Len(sites) |->
        IF i = k + 1 THEN newA ELSE IF i = Min(k + 3, Len(sites)) THEN newB ELSE sites[i]]

\* self.sites[k] = new_a; self.sites[k + 1] = new_b
ReplacePair(sites, k, newA, newB) == [sites EXCEPT ![k + 1] = newA, ![k + 2] = newB]

\* apply_2q_svd(k, u, trunc), svd being what thin_svd returned for theta
Apply2qSvd(sites, k, u, trunc, svd) ==
    LET a == Site(sites, k)
        b == Site(sites, k + 1)
        kept == Kept(svd.s, trunc)
    IN  ReplacePair(sites, k, NewA(svd, a.dl, kept), NewB(svd, kept, b.dr))

\* quantum::apply_cnot
ApplyCnot(sites, k, trunc, svd) == Apply2qSvd(sites, k, cnot, trunc, svd)

(***************************************************************************)
(* Environments, measure_z, depolarizing_1q                                *)
(***************************************************************************)
\* left_env(sites, k): the flattened (dl_k x dl_k) matrix, index l*dl + l'
RECURSIVE left_env(_, _)
left_env(sites, k) ==
    IF k = 0 THEN <<COne>>
    ELSE LET env == left_env(sites, k - 1)
             a == Site(sites, k - 1)
         IN  [j \in 1..(a.dr * a.dr) |->
                LET r == (j - 1) \div a.dr
                    rp == (j - 1) % a.dr
                IN  CSum([t \in 1..(a.dl * a.dl * a.dp) |->
                            LET l == (t - 1) \div (a.dl * a.dp)
                                lp == ((t - 1) \div a.dp) % a.dl
                                p == (t - 1) % a.dp
                            IN  CMul(CMul(env[l * a.dl + lp + 1], Get(a, l, p, r)),
                                     CConj(Get(a, lp, p, rp)))] \o <<>>)] \o <<>>

\* right_env(sites, k): the sites i > k folded from the right, down to site i
RECURSIVE RightFold(_, _)
RightFold(sites, i) ==
    IF i >= Len(sites) THEN <<COne>>
    ELSE LET env == RightFold(sites, i + 1)
             a == Site(sites, i)
         IN  [j \in 1..(a.dl * a.dl) |->
                LET l == (j - 1) \div a.dl
                    lp == (j - 1) % a.dl
                IN  CSum([t \in 1..(a.dr * a.dr * a.dp) |->
                            LET r == (t - 1) \div (a.dr * a.dp)
                                rp == ((t - 1) \div a.dp) % a.dr
                                p == (t - 1) % a.dp
                            IN  CMul(CMul(Get(a, l, p, r), CConj(Get(a, lp, p, rp))),
                                     env[r * a.dr + rp + 1])] \o <<>>)] \o <<>>

right_env(sites, k) == RightFold(sites, k + 1)

\* probs[p] of measure_z without the scales q: the real part of the double
\* layer contraction at site k, floored at 0
Weight(sites, k, p) ==
    LET s == Site(sites, k)
        left == left_env(sites, k)
        right == right_env(sites, k)
        acc == CSum([t \in 1..(s.dl * s.dl * s.dr * s.dr) |->
                       LET l == (t - 1) \div (s.dl * s.dr * s.dr)
                           lp == ((t - 1) \div (s.dr * s.dr)) % s.dl
                           r == ((t - 1) \div s.dr) % s.dr
                           rp == (t - 1) % s.dr
                       IN  CMul(CMul(CMul(left[l * s.dl + lp + 1], Get(s, l, p, r)),
                                     CConj(Get(s, lp, p, rp))),
                                right[r * s.dr + rp + 1])] \o <<>>)
    IN  IF acc[1] < 0 THEN 0 ELSE acc[1]

\* the product of the scales q of the sites other than k
RECURSIVE QOthers(_, _, _)
QOthers(sites, k, i) ==
    IF i > Len(sites) THEN QOne
    ELSE QMul(IF i = k + 1 THEN QOne ELSE sites[i].q, QOthers(sites, k, i + 1))

\* the loop of measure_z over probs, x = u * total: the first p with x < probs[p],
\* the skipped weights subtracted; outcome stays 0 when the loop finds none.
\* x and the weights are counted in units of 1/F64One.
RECURSIVE PickOutcome(_, _, _)
PickOutcome(probs, x, p) ==
    IF p > Len(probs) THEN 0
    ELSE IF x < probs[p] * F64One THEN p - 1
    ELSE PickOutcome(probs, x - probs[p] * F64One, p + 1)

\* the collapsed tensor: zero but for s[l, outcome, r] / sqrt(probs[outcome])
Collapsed(sites, k, outcome, w) ==
    LET s == Site(sites, k)
        Entry == [l \in 0..(s.dl - 1), p \in 0..(s.dp - 1), r \in 0..(s.dr - 1) |->
                     IF p = outcome THEN Get(s, l, p, r) ELSE CZero]
    IN  Filled(s.dl, s.dp, s.dr, Entry, QMul(<<1, w>>, QInv(QOthers(sites, k, 1))))

\* the tensor the collapse would install were the two early returns of
\* measure_z missing: Tensor3::zeros with the selected entries copied over
Uncollapsed(sites, k, outcome) ==
    LET s == Site(sites, k)
        Entry == [l \in 0..(s.dl - 1), p \in 0..(s.dp - 1), r \in 0..(s.dr - 1) |->
                     IF p = outcome THEN Get(s, l, p, r) ELSE CZero]
    IN  Filled(s.dl, s.dp, s.dr, Entry, s.q)

\* measure_z installing its tensor t also when total or norm is zero
MeasureZAlwaysAssigns(sites, k, r, d) ==
    LET s == Site(sites, k)
        probs == [p \in 1..s.dp |-> Weight(sites, k, p - 1)] \o <<>>
        total == ISum(probs)
        outcome == PickOutcome(probs, d.value * total, 1)
    IN  IF total = 0
        THEN [sites |-> [sites EXCEPT ![k + 1] = Uncollapsed(sites, k, 0)],
              rng |-> r, outcome |-> 0, drew |-> FALSE]
        ELSE IF probs[outcome + 1] = 0
        THEN [sites |-> [sites EXCEPT ![k + 1] = Uncollapsed(sites, k, outcome)],
              rng |-> d.rng, outcome |-> outcome, drew |-> TRUE]
        ELSE [sites |-> [sites EXCEPT ![k + 1] =
                            Collapsed(sites, k, outcome, probs[outcome + 1])],
              rng |-> d.rng, outcome |-> outcome, drew |-> TRUE]

\* measure_z(psi, k, rng) when next_f64("MEASURE_Z"), if called, gives d =
\* [rng, value]: the sites and the RNG fields after the call, the outcome, and
\* whether the value was drawn
MeasureZDrawn(sites, k, r, d) ==
    LET s == Site(sites, k)
        probs == [p \in 1..s.dp |-> Weight(sites, k, p - 1)] \o <<>>
        total == ISum(probs)
        outcome == PickOutcome(probs, d.value * total, 1)
    IN  IF total = 0
        THEN [sites |-> sites, rng |-> r, outcome |-> 0, drew |-> FALSE]
        ELSE IF probs[outcome + 1] = 0
        THEN [sites |-> sites, rng |-> d.rng, outcome |-> outcome, drew |-> TRUE]
        ELSE [sites |-> [sites EXCEPT ![k + 1] =
                            Collapsed(sites, k, outcome, probs[outcome + 1])],
              rng |-> d.rng, outcome |-> outcome, drew |-> TRUE]

\* measure_z(psi, k, rng)
measure_z(sites, k, r) == MeasureZDrawn(sites, k, r, NextF64(r, MEASURE_Z))

\* depolarizing_1q drawing before it looks at p
DepolarizingDrawsFirst(sites, k, p, r, d) ==
    LET x == d.value
    IN  IF p[1] <= 0 \/ x * p[2] >= p[1] * F64One
        THEN [sites |-> sites, rng |-> d.rng, gate |-> "none"]
        ELSE IF 3 * x * p[2] < p[1] * F64One
        THEN [sites |-> Apply1q(sites, k, pauli_x), rng |-> d.rng, gate |-> "x"]
        ELSE IF 3 * x * p[2] < 2 * p[1] * F64One
        THEN [sites |-> Apply1q(sites, k, pauli_y), rng |-> d.rng, gate |-> "y"]
        ELSE [sites |-> Apply1q(sites, k, pauli_z), rng |-> d.rng, gate |-> "z"]

\* depolarizing_1q with <= in place of < on the two thresholds of r
DepolarizingLe(sites, k, p, r, d) ==
    LET x == d.value
    IN  IF p[1] <= 0 THEN [sites |-> sites, rng |-> r, gate |-> "none"]
        ELSE IF x * p[2] >= p[1] * F64One
        THEN [sites |-> sites, rng |-> d.rng, gate |-> "none"]
        ELSE IF 3 * x * p[2] <= p[1] * F64One
        THEN [sites |-> Apply1q(sites, k, pauli_x), rng |-> d.rng, gate |-> "x"]
        ELSE IF 3 * x * p[2] <= 2 * p[1] * F64One
        THEN [sites |-> Apply1q(sites, k, pauli_y), rng |-> d.rng, gate |-> "y"]
        ELSE [sites |-> Apply1q(sites, k, pauli_z), rng |-> d.rng, gate |-> "z"]

\* depolarizing_1q(psi, k, p, rng), p = <<num, den>>, when next_f64("DEPOL_1Q"),
\* if called, gives d = [rng, value]: the sites and the RNG fields after the
\* call and the Pauli gate applied
DepolarizingDrawn(sites, k, p, r, d) ==
    LET x == d.value
    IN  IF p[1] <= 0 THEN [sites |-> sites, rng |-> r, gate |-> "none"]
        ELSE IF x * p[2] >= p[1] * F64One
        THEN [sites |-> sites, rng |-> d.rng, gate |-> "none"]
        ELSE IF 3 * x * p[2] < p[1] * F64One
        THEN [sites |-> Apply1q(sites, k, pauli_x), rng |-> d.rng, gate |-> "x"]
        ELSE IF 3 * x * p[2] < 2 * p[1] * F64One
        THEN [sites |-> Apply1q(sites, k, pauli_y), rng |-> d.rng, gate |-> "y"]
        ELSE [sites |-> Apply1q(sites, k, pauli_z), rng |-> d.rng, gate |-> "z"]

\* depolarizing_1q(psi, k, p, rng)
depolarizing_1q(sites, k, p, r) == DepolarizingDrawn(sites, k, p, r, NextF64(r, DEPOL_1Q))

(***************************************************************************)
(* Observables: expect_zz, expect_two_site, expect_xx, expect_yy.  A value  *)
(* is the exact quotient <<num, den>> the f64 division approximates; the   *)
(* scales q of the sites cancel in it.                                     *)
(***************************************************************************)
\* n / d for d > 0 in lowest terms
Rat(n, d) == LET g == Gcd(Abs(n), d) IN <<n \div g, d \div g>>

\* the innermost sum of expect_zz and expect_two_site: sites a = sites[i] and
\* b = sites[i + 1] with physical indices (pi, pj), their conjugates with
\* (qi, qj), between left_env(i) and right_env(i + 1)
PairAcc(sites, i, pi, pj, qi, qj) ==
    LET a == Site(sites, i)
        b == Site(sites, i + 1)
        left == left_env(sites, i)
        right == right_env(sites, i + 1)
    IN  CSum([t \in 1..(a.dl * a.dl * b.dr * b.dr * a.dr * a.dr) |->
                LET mp == (t - 1) % a.dr
                    m == ((t - 1) \div a.dr) % a.dr
                    rp == ((t - 1) \div (a.dr * a.dr)) % b.dr
                    r == ((t - 1) \div (a.dr * a.dr * b.dr)) % b.dr
                    lp == ((t - 1) \div (a.dr * a.dr * b.dr * b.dr)) % a.dl
                    l == (t - 1) \div (a.dr * a.dr * b.dr * b.dr * a.dl)
                IN  CMul(CMul(CMul(CMul(CMul(left[l * a.dl + lp + 1], Get(a, l, pi, m)),
                                        Get(b, m, pj, r)),
                                   CConj(Get(a, lp, qi, mp))),
                              CConj(Get(b, mp, qj, rp))),
                         right[r * b.dr + rp + 1])] \o <<>>)

Floor0(n) == IF n < 0 THEN 0 ELSE n

\* the body of expect_zz after its asserts: weights[pi][pj] floored at 0,
\* numer / denom, and 0.0 for denom == 0.0
ZZValue(sites, i) ==
    LET w == [pi \in 0..1, pj \in 0..1 |-> Floor0(PairAcc(sites, i, pi, pj, pi, pj)[1])]
        denom == w[0, 0] + w[0, 1] + w[1, 0] + w[1, 1]
        numer == w[0, 0] - w[0, 1] - w[1, 0] + w[1, 1]
    IN  IF denom = 0 THEN <<0, 1>> ELSE Rat(numer, denom)

\* kron(a, b): out[i*2 + k][j*2 + l] = a[i][j] * b[k][l]
kron(a, b) ==
    [m |-> [row \in 1..4 |-> [col \in 1..4 |->
              CMul(a.m[((row - 1) \div 2) + 1][((col - 1) \div 2) + 1],
                   b.m[((row - 1) % 2) + 1][((col - 1) % 2) + 1])] \o <<>>] \o <<>>,
     q |-> QMul(a.q, b.q)]

\* the bit of weight 2^b of t - 1: the loop indices pi, pj, qi, qj of
\* expect_two_site are the bits 3, 2, 1, 0 of its turn t - 1
Bit(t, b) == ((t - 1) \div (2 ^ b)) % 2

\* the body of expect_two_site after its asserts, for an op of scale q = 1:
\* numer over all (pi, pj, qi, qj), denom over the diagonal ones floored at 0
TwoSiteValue(sites, i, op) ==
    LET acc == [t \in 1..16 |->
                  PairAcc(sites, i, Bit(t, 3), Bit(t, 2), Bit(t, 1), Bit(t, 0))] \o <<>>
        numer == CSum([t \in 1..16 |->
                         CMul(op.m[Bit(t, 3) * 2 + Bit(t, 2) + 1][Bit(t, 1) * 2 + Bit(t, 0) + 1],
                              acc[t])] \o <<>>)
        denom == ISum([t \in 1..16 |->
                         IF Bit(t, 3) = Bit(t, 1) /\ Bit(t, 2) = Bit(t, 0)
                         THEN Floor0(acc[t][1]) ELSE 0] \o <<>>)
    IN  IF denom = 0 THEN <<0, 1>> ELSE Rat(numer[1], denom)

\* the value the observable of the name returns for the pair (i, i + 1)
PairValue(name, sites, i) ==
    CASE name = "expect_zz" -> ZZValue(sites, i)
      [] name = "expect_xx" -> TwoSiteValue(sites, i, kron(pauli_x, pauli_x))
      [] OTHER -> TwoSiteValue(sites, i, kron(pauli_y, pauli_y))

NoRead == {}

\* an observable reading sites i and j before it asserts j == i + 1
ExpectPairAssertsLate(name, sites, i, j) ==
    IF i >= Len(sites) \/ j >= Len(sites)
    THEN [panic |-> TRUE, reads |-> NoRead, value |-> <<>>]
    ELSE IF j # i + 1 \/ Site(sites, i).dp # 2 \/ Site(sites, j).dp # 2
    THEN [panic |-> TRUE, reads |-> {i, j}, value |-> <<>>]
    ELSE [panic |-> FALSE, reads |-> 0..(Len(sites) - 1),
          value |-> <<PairValue(name, sites, i)>>]

\* expect_zz(psi, i, j), expect_xx and expect_yy (through expect_two_site):
\* assert!(j == i + 1), then &psi.sites[i] and &psi.sites[j] (a panic when out
\* of range), assert!(a.dp == 2 && b.dp == 2), then the environments and the
\* sums.  reads: the sites whose tensors were read.
ExpectPair(name, sites, i, j) ==
    IF j # i + 1
    THEN [panic |-> TRUE, reads |-> NoRead, value |-> <<>>]
    ELSE IF i >= Len(sites) \/ j >= Len(sites)
    THEN [panic |-> TRUE, reads |-> NoRead, value |-> <<>>]
    ELSE IF Site(sites, i).dp # 2 \/ Site(sites, j).dp # 2
    THEN [panic |-> TRUE, reads |-> {i, j}, value |-> <<>>]
    ELSE [panic |-> FALSE, reads |-> 0..(Len(sites) - 1),
          value |-> <<PairValue(name, sites, i)>>]

(***************************************************************************)
(* Calls that may panic: apply_1q, apply_2q_svd, Tensor3::get and set      *)
(***************************************************************************)
\* apply_1q doing nothing for a site index out of range
Apply1qCallSilent(sites, k, u) ==
    IF k >= Len(sites) THEN [panic |-> FALSE, sites |-> sites]
    ELSE [panic |-> FALSE, sites |-> Apply1q(sites, k, u)]

\* apply_1q(k, u) as called: let s = &self.sites[k] panics for k >= n, before
\* self.sites[k] = out
Apply1qCall(sites, k, u) ==
    IF k >= Len(sites) THEN [panic |-> TRUE, sites |-> sites]
    ELSE [panic |-> FALSE, sites |-> Apply1q(sites, k, u)]

\* apply_2q_svd(k, u, trunc) panics at let a = &self.sites[k] or at
\* let b = &self.sites[k + 1], its first two statements
Apply2qIndexPanics(sites, k) == k >= Len(sites) \/ k + 1 >= Len(sites)

\* Tensor3::get(l, p, r): self.data[self.idx(l, p, r)], a panic when the flat
\* index is outside data.  flat: the entry read.
TensorGet(t, l, p, r) ==
    IF idx(t, l, p, r) >= Len(t.data)
    THEN [panic |-> TRUE, flat |-> <<>>, tensor |-> t]
    ELSE [panic |-> FALSE, flat |-> <<idx(t, l, p, r)>>, tensor |-> t]

\* Tensor3::set(l, p, r, v) for v = 0: self.data[i] = v with i = idx(l, p, r),
\* a panic when i is outside data.  flat: the entry written.
TensorSetZero(t, l, p, r) ==
    IF idx(t, l, p, r) >= Len(t.data)
    THEN [panic |-> TRUE, flat |-> <<>>, tensor |-> t]
    ELSE [panic |-> FALSE, flat |-> <<idx(t, l, p, r)>>,
          tensor |-> Canon([t EXCEPT !.data[idx(t, l, p, r) + 1] = CZero])]

(***************************************************************************)
(* f64 results of the estimators: a binary float with MantBits significant *)
(* bits, counted in units of 1/FUnit, every operation rounded to nearest,  *)
(* ties to even                                                            *)
(***************************************************************************)
FUnit == 1024
MantBits == 5

\* n / d for d > 0, rounded to the nearest integer, ties to even
RoundDiv(n, d) ==
    LET a == Abs(n)
        q == a \div d
        rem == a % d
        up == IF 2 * rem > d \/ (2 * rem = d /\ q % 2 = 1) THEN q + 1 ELSE q
    IN  IF n < 0 THEN -up ELSE up

\* the least power of two p with a < p * 2^MantBits
RECURSIVE Ulp(_, _)
Ulp(a, p) == IF a < p * (2 ^ MantBits) THEN p ELSE Ulp(a, 2 * p)

\* the representable value nearest to n units
FRound(n) == LET p == Ulp(Abs(n), 1) IN p * RoundDiv(n, p)

FAdd(a, b) == FRound(a + b)
FMul(a, b) == FRound(RoundDiv(a * b, FUnit))
FDiv(a, b) == FRound(RoundDiv(a * FUnit, Abs(b)) * (IF b < 0 THEN -1 ELSE 1))
FFromInt(n) == FRound(n * FUnit)

(***************************************************************************)
(* Hamiltonian, estimate_z_shots, estimate_zz_shots, estimate_energy_shots *)
(***************************************************************************)
\* Hamiltonian { z_fields: vec![0.0, 0.0], zz_couplings: vec![1.0] }
VqeHamiltonian == [z_fields |-> <<0, 0>>, zz_couplings |-> <<FUnit>>]

\* estimate_energy_shots running its loop over zz_couplings first
EnergyTermsZZFirst(h) ==
    [i \in 1..Len(h.zz_couplings) |->
        [kind |-> "zz", i |-> i - 1, j |-> i, coef |-> h.zz_couplings[i]]]
        \o [i \in 1..Len(h.z_fields) |->
                [kind |-> "z", i |-> i - 1, j |-> i - 1, coef |-> h.z_fields[i]]]

\* the loops of estimate_energy_shots in their order: one estimate_z_shots per
\* entry of z_fields, then one estimate_zz_shots per entry of zz_couplings
EnergyTerms(h) ==
    [i \in 1..Len(h.z_fields) |-> [kind |-> "z", i |-> i - 1, j |-> i - 1, coef |-> h.z_fields[i]]]
        \o [i \in 1..Len(h.zz_couplings) |->
                [kind |-> "zz", i |-> i - 1, j |-> i, coef |-> h.zz_couplings[i]]]

\* the MPS measure_z is handed in a shot, were it the caller's own
CallerSlot == "psi"

\* the MPS measure_z is handed in a shot: &mut psi_copy
CloneSlot == "psi_copy"

\* let mut psi_copy = psi.clone(): every tensor of psi copied
MpsClone(h) == [h EXCEPT !.psi_copy = h.psi]

\* +1.0 for outcome 0, -1.0 for outcome 1
ZValue(m) == IF m = 0 THEN FUnit ELSE -FUnit

\* one turn of the loop of estimate_z_shots on the MPS values h = [psi, psi_copy]
z_shot(h, k, r) ==
    LET c == MpsClone(h)
        m == measure_z(c[CloneSlot], k, r)
    IN  [mps |-> [c EXCEPT ![CloneSlot] = m.sites], cloned |-> c.psi_copy,
         rng |-> m.rng, add |-> ZValue(m.outcome)]

\* one turn of the loop of estimate_zz_shots: site i measured, then site j on
\* the same psi_copy
zz_shot(h, i, j, r) ==
    LET c == MpsClone(h)
        Second(mi) ==
            LET mj == measure_z(mi.sites, j, mi.rng)
            IN  [mps |-> [c EXCEPT ![CloneSlot] = mj.sites], cloned |-> c.psi_copy,
                 rng |-> mj.rng, add |-> FMul(ZValue(mi.outcome), ZValue(mj.outcome))]
    IN  CHOOSE res \in {Second(mi) : mi \in {measure_z(c[CloneSlot], i, r)}} : TRUE

\* the locals of an estimator call before its first loop
FrameNew(sites) ==
    [mps |-> [psi |-> sites, psi_copy |-> <<>>], cloned |-> <<>>,
     pc |-> "shots", term |-> 1, shot |-> 0, sum |-> 0, e |-> 0]

\* the frame after one more shot that returned res
FrameShot(f, res) ==
    [f EXCEPT !.mps = res.mps, !.cloned = res.cloned,
              !.shot = @ + 1, !.sum = FAdd(@, res.add)]

\* sum / shots as f64, and 0.0 at once for shots = 0
ShotMean(sum, shots) == IF shots = 0 THEN 0 ELSE FDiv(sum, FFromInt(shots))

\* the frame after a loop of estimate_energy_shots has ended:
\* e += coef * (sum / shots), on to the next term or to the return
FrameEndTerm(f, terms, shots) ==
    [f EXCEPT !.e = FAdd(@, FMul(terms[f.term].coef, ShotMean(f.sum, shots))),
              !.term = @ + 1, !.shot = 0, !.sum = 0,
              !.pc = IF f.term = Len(terms) THEN "done" ELSE "shots"]

(***************************************************************************)
(* The brickwork driver (bins/chi_sweep): rand_angle, apply_random_2q,     *)
(* chi_max                                                                 *)
(***************************************************************************)
SeedChiSweep == <<99, 104, 105, 45, 115, 119, 101, 101, 112>>  \* "chi-sweep"
SeedDigit == <<48>>                                             \* "0"

\* rand_angle(rng, ctx): next_f64(ctx) * 2 pi, kept as the half angle in
\* quarters of pi nearest to it (j in 0..4), and the RNG fields after the draw
rand_angle(r, ctx) ==
    LET d == NextF64(r, ctx)
    IN  [rng |-> d.rng, j |-> (d.value * 4 + F64One \div 2) \div F64One]

\* the largest dl or dr over the sites i..Len(sites)
RECURSIVE ChiFrom(_, _)
ChiFrom(sites, i) ==
    IF i > Len(sites) THEN 0
    ELSE LET rest == ChiFrom(sites, i + 1)
             here == IF sites[i].dl > sites[i].dr THEN sites[i].dl ELSE sites[i].dr
         IN  IF here > rest THEN here ELSE rest

\* chi_max(psi): max over the sites of max(dl, dr), 1 for no sites
chi_max(sites) == IF Len(sites) = 0 THEN 1 ELSE ChiFrom(sites, 1)

(***************************************************************************)
(* SpecRng: two ONDRng values, each driven by its own sequence of calls    *)
(***************************************************************************)
MaxDraws == 3

Inst == {1, 2}
Seeds == {SeedSeed, SeedShots}
Tags == {RZ0, RX0, DEPOL_1Q}

\* every instance working on the fields of the first one (a shared static)
SharedFields(i) == 1

\* the fields a call on instance i reads and writes: its own (&mut self)
OwnFields(i) == i

RngIdle == rngs = <<>> /\ rngSeed = <<>> /\ ctxLog = <<>> /\ outLog = <<>>
MpsIdle == psi = <<>> /\ rng = <<>> /\ runTrunc = <<>> /\ last = <<>> /\ nOps = 0
BrickIdle == pos = <<>>
ShotsIdle == frame = <<>> /\ est = <<>>
VqeIdle == traj = <<>> /\ trng = <<>> /\ result = <<>>

InitRng ==
    /\ MpsIdle /\ BrickIdle /\ ShotsIdle /\ VqeIdle
    /\ rngSeed \in [Inst -> Seeds]
    /\ rngs = [i \in Inst |-> ONDRngNew(rngSeed[i])]
    /\ ctxLog = [i \in Inst |-> <<>>]
    /\ outLog = [i \in Inst |-> <<>>]

CallNextF64(i, ctx) ==
    /\ Len(ctxLog[i]) < MaxDraws
    /\ \E r \in {NextF64(rngs[OwnFields(i)], ctx)} :
           /\ rngs' = [rngs EXCEPT ![OwnFields(i)] = r.rng]
           /\ outLog' = [outLog EXCEPT ![i] = Append(@, r.value)]
    /\ ctxLog' = [ctxLog EXCEPT ![i] = Append(@, ctx)]
    /\ UNCHANGED <<rngSeed, mpsVars, brickVars, shotVars, vqeVars>>

NextRng == \E i \in Inst, ctx \in Tags : CallNextF64(i, ctx)

SpecRng == InitRng /\ [][NextRng]_vars

(***************************************************************************)
(* SpecMps: one MPS built by new_zero(n) and driven by apply_1q,           *)
(* apply_2q_svd, measure_z and depolarizing_1q under one Truncation        *)
(***************************************************************************)
MaxOps == 3

Sizes == {1, 2, 3}
MaxBonds == {1, 2}
Cutoffs == {0, 1}
Truncations == [max_bond : MaxBonds, cutoff : Cutoffs]
Gates1q == {hadamard, pauli_x}
Gates2q == {cnot, cz}
DepolProbs == {<<1, 1>>, <<1, 2>>}

NoSigma == <<>>

Done(op, k, sigma, outcome) ==
    [op |-> op, k |-> k, pre |-> psi, sigma |-> sigma, outcome |-> outcome]

InitMps ==
    /\ RngIdle /\ BrickIdle /\ ShotsIdle /\ VqeIdle
    /\ \E n \in Sizes : psi = NewZero(n)
    /\ rng = ONDRngNew(SeedSeed)
    /\ runTrunc \in Truncations
    /\ last = [op |-> "new_zero", k |-> 0, pre |-> <<>>, sigma |-> NoSigma, outcome |-> 0]
    /\ nOps = 0

DoApply1q(k, u) ==
    /\ nOps < MaxOps
    /\ psi' = Apply1q(psi, k, u)
    /\ last' = Done("apply_1q", k, NoSigma, 0)
    /\ nOps' = nOps + 1
    /\ UNCHANGED <<rng, runTrunc, rngVars, brickVars, shotVars, vqeVars>>

DoApply2qSvd(k, u) ==
    /\ nOps < MaxOps
    /\ k + 1 < Len(psi)
    /\ \E theta \in {Theta(Site(psi, k), Site(psi, k + 1), u)} :
       \E svd \in SvdResults(theta) :
          /\ psi' = Apply2qSvd(psi, k, u, runTrunc, svd)
          /\ last' = Done("apply_2q_svd", k, svd.s, 0)
    /\ nOps' = nOps + 1
    /\ UNCHANGED <<rng, runTrunc, rngVars, brickVars, shotVars, vqeVars>>

DoMeasureZ(k) ==
    /\ nOps < MaxOps
    /\ \E res \in {measure_z(psi, k, rng)} :
           /\ psi' = res.sites
           /\ rng' = res.rng
           /\ last' = Done("measure_z", k, NoSigma, res.outcome)
    /\ nOps' = nOps + 1
    /\ UNCHANGED <<runTrunc, rngVars, brickVars, shotVars, vqeVars>>

DoDepolarizing1q(k, p) ==
    /\ nOps < MaxOps
    /\ \E res \in {depolarizing_1q(psi, k, p, rng)} :
           /\ psi' = res.sites
           /\ rng' = res.rng
    /\ last' = Done("depolarizing_1q", k, NoSigma, 0)
    /\ nOps' = nOps + 1
    /\ UNCHANGED <<runTrunc, rngVars, brickVars, shotVars, vqeVars>>

NextMps ==
    \/ \E k \in 0..(Len(psi) - 1), u \in Gates1q : DoApply1q(k, u)
    \/ \E k \in 0..(Len(psi) - 1), u \in Gates2q : DoApply2qSvd(k, u)
    \/ \E k \in 0..(Len(psi) - 1) : DoMeasureZ(k)
    \/ \E k \in 0..(Len(psi) - 1), p \in DepolProbs : DoDepolarizing1q(k, p)

SpecMps == InitMps /\ [][NextMps]_vars

(***************************************************************************)
(* SpecBrick: the loop of chi_sweep's main for one max_bond: new_zero(n),  *)
(* then brickwork layers, each apply_pairs from 0 and then from 1          *)
(***************************************************************************)
MaxDepth == 2

BrickSizes == {1, 2, 3, 4}
BrickSeeds == {SeedChiSweep, SeedDigit}
BrickMaxBonds == {1, 2, 3}
BrickTruncations == [max_bond : BrickMaxBonds, cutoff : Cutoffs]

InitBrick ==
    /\ RngIdle /\ ShotsIdle /\ VqeIdle
    /\ \E n \in BrickSizes : psi = NewZero(n)
    /\ \E seed \in BrickSeeds : rng = ONDRngNew(seed)
    /\ runTrunc \in BrickTruncations
    /\ last = [op |-> "new_zero", k |-> 0, pre |-> <<>>, sigma |-> NoSigma, outcome |-> 0]
    /\ nOps = 0
    /\ pos = [depth |-> 0, start |-> 0, i |-> 0]

\* apply_random_2q(psi, k, trunc, rng): six draws in the order RZ0, RX0, RZ1,
\* RZ2, RX1, RZ3, then rz, rx, rz on site k and rz, rx, rz on site k + 1, then
\* apply_cnot.  Each \E over a one-element set names a value computed once.
apply_random_2q(k) ==
    \E a0 \in {rand_angle(rng, RZ0)} :
    \E b0 \in {rand_angle(a0.rng, RX0)} :
    \E c0 \in {rand_angle(b0.rng, RZ1)} :
    \E a1 \in {rand_angle(c0.rng, RZ2)} :
    \E b1 \in {rand_angle(a1.rng, RX1)} :
    \E c1 \in {rand_angle(b1.rng, RZ3)} :
    \E s1 \in {Apply1q(psi, k, rz(a0.j))} :
    \E s2 \in {Apply1q(s1, k, rx(b0.j))} :
    \E s3 \in {Apply1q(s2, k, rz(c0.j))} :
    \E s4 \in {Apply1q(s3, k + 1, rz(a1.j))} :
    \E s5 \in {Apply1q(s4, k + 1, rx(b1.j))} :
    \E s6 \in {Apply1q(s5, k + 1, rz(c1.j))} :
    \E theta \in {Theta(Site(s6, k), Site(s6, k + 1), cnot)} :
    \E svd \in SvdResults(theta) :
        /\ psi' = ApplyCnot(s6, k, runTrunc, svd)
        /\ rng' = c1.rng
        /\ last' = Done("apply_random_2q", k, svd.s, 0)

\* one turn of the while loop of apply_pairs: apply_random_2q(psi, i, trunc, rng); i += 2
BrickPair ==
    /\ pos.depth < MaxDepth
    /\ pos.i + 1 < Len(psi)
    /\ apply_random_2q(pos.i)
    /\ pos' = [pos EXCEPT !.i = @ + 2]
    /\ nOps' = nOps + 1
    /\ UNCHANGED <<runTrunc, rngVars, shotVars, vqeVars>>

\* the while loop of apply_pairs ends: from start 0 on to start 1, from start 1
\* on to the next layer (depth += 1)
BrickPairsDone ==
    /\ pos.depth < MaxDepth
    /\ pos.i + 1 >= Len(psi)
    /\ pos' = IF pos.start = 0 THEN [pos EXCEPT !.start = 1, !.i = 1]
              ELSE [depth |-> pos.depth + 1, start |-> 0, i |-> 0]
    /\ UNCHANGED <<mpsVars, rngVars, shotVars, vqeVars>>

NextBrick == BrickPair \/ BrickPairsDone

SpecBrick == InitBrick /\ [][NextBrick]_vars

(***************************************************************************)
(* SpecShots: one call of estimate_z_shots, estimate_zz_shots or           *)
(* estimate_energy_shots on a two-site MPS of the caller                   *)
(***************************************************************************)
Shots == 2

\* the caller's MPS: H on site 0, or H on site 0 and then CNOT on (0, 1)
ShotInputs ==
    LET plus == Apply1q(NewZero(2), 0, hadamard)
        trunc == [max_bond |-> 2, cutoff |-> 0]
    IN  {plus} \cup {ApplyCnot(plus, 0, trunc, svd) :
                        svd \in SvdResults(Theta(Site(plus, 0), Site(plus, 1), cnot))}

\* the calls: their name and the loops they run
ShotCalls ==
    {[name |-> "estimate_z_shots",
      terms |-> <<[kind |-> "z", i |-> k, j |-> k, coef |-> FUnit]>>] : k \in {0, 1}}
    \cup {[name |-> "estimate_zz_shots",
           terms |-> <<[kind |-> "zz", i |-> 0, j |-> 1, coef |-> FUnit]>>],
          [name |-> "estimate_energy_shots", terms |-> EnergyTerms(VqeHamiltonian)]}

NoValue == <<>>

InitShots ==
    /\ RngIdle /\ BrickIdle /\ VqeIdle
    /\ psi = <<>> /\ runTrunc = <<>> /\ last = <<>> /\ nOps = 0
    /\ rng = ONDRngNew(SeedShots)
    /\ frame \in {FrameNew(sites) : sites \in ShotInputs}
    /\ \E call \in ShotCalls :
          est = [call |-> call.name, terms |-> call.terms, orig |-> frame.mps.psi,
                 value |-> NoValue]

ShotFrame == <<psi, runTrunc, last, nOps, rngVars, brickVars, vqeVars>>

\* one turn of the loop of estimate_z_shots
ShotZ ==
    /\ frame.pc = "shots" /\ frame.shot < Shots
    /\ est.terms[frame.term].kind = "z"
    /\ \E res \in {z_shot(frame.mps, est.terms[frame.term].i, rng)} :
          /\ frame' = FrameShot(frame, res)
          /\ rng' = res.rng
    /\ UNCHANGED <<est, ShotFrame>>

\* one turn of the loop of estimate_zz_shots
ShotZZ ==
    /\ frame.pc = "shots" /\ frame.shot < Shots
    /\ est.terms[frame.term].kind = "zz"
    /\ \E res \in {zz_shot(frame.mps, est.terms[frame.term].i, est.terms[frame.term].j, rng)} :
          /\ frame' = FrameShot(frame, res)
          /\ rng' = res.rng
    /\ UNCHANGED <<est, ShotFrame>>

\* the loop over the shots has ended: estimate_z_shots and estimate_zz_shots
\* return sum / shots, estimate_energy_shots adds the term and goes on
ShotEndTerm ==
    /\ frame.pc = "shots" /\ frame.shot = Shots
    /\ frame' = FrameEndTerm(frame, est.terms, Shots)
    /\ est' = [est EXCEPT !.value =
                  IF frame'.pc # "done" THEN NoValue
                  ELSE IF est.call = "estimate_energy_shots" THEN <<frame'.e>>
                  ELSE <<ShotMean(frame.sum, Shots)>>]
    /\ UNCHANGED <<rng, ShotFrame>>

NextShots == ShotZ \/ ShotZZ \/ ShotEndTerm

SpecShots == InitShots /\ [][NextShots]_vars

(***************************************************************************)
(* SpecVqe: noisy_vqe_energy called twice with the same arguments.  The    *)
(* rayon workers of the first call take the trajectories' steps in any     *)
(* order; the second call is made after the first has returned and one     *)
(* worker runs its trajectories one after the other.                       *)
(***************************************************************************)
NumTraj == 2

Runs == {1, 2}
Trajs == 0..(NumTraj - 1)
VqeThetas == {1, 2}
VqeProbs == {<<0, 1>>, <<1, 2>>}
VqeStep == 3

ThetaTag == <<45, 116, 104, 101, 116, 97, 45>>  \* "-theta-"
TrajTag == <<45, 116, 114, 97, 106, 45>>        \* "-traj-"

\* format!("{}-theta-{}-traj-{}", seed, step, t) as bytes
SeedStr(seed, step, t) == seed \o ThetaTag \o Decimal(step) \o TrajTag \o Decimal(t)

\* every trajectory of a run drawing from the ONDRng of trajectory 0
SharedRng(run, t) == <<run, 0>>

\* the ONDRng a trajectory draws from: the one its closure built
OwnRng(run, t) == <<run, t>>

InitVqe ==
    /\ RngIdle /\ MpsIdle /\ BrickIdle /\ ShotsIdle
    /\ traj = [x \in Runs \X Trajs |-> [pc |-> "start"]]
    /\ trng = [x \in Runs \X Trajs |-> <<>>]
    /\ \E j \in VqeThetas, p \in VqeProbs :
          result = [theta |-> j, p |-> p, seed |-> SeedSeed, step |-> VqeStep,
                    value |-> [run \in Runs |-> NoValue]]

VqeFrame == <<rngVars, mpsVars, brickVars, shotVars>>

\* a worker may take a step of trajectory t of the run
CanStep(run, t) ==
    \/ run = 1
    \/ /\ result.value[1] # NoValue
       /\ \A u \in Trajs : u < t => traj[<<run, u>>].pc = "done"

\* the closure up to estimate_energy_shots: the seed string, ONDRng::new,
\* new_zero(2), apply_1q(0, rx(theta)), depolarizing_1q(psi, 0, p, rng)
TrajStart(run, t) ==
    /\ CanStep(run, t)
    /\ traj[<<run, t>>].pc = "start"
    /\ \E r0 \in {ONDRngNew(SeedStr(result.seed, result.step, t))} :
       \E s1 \in {Apply1q(NewZero(2), 0, rx(result.theta))} :
       \E d \in {depolarizing_1q(s1, 0, result.p, r0)} :
          /\ traj' = [traj EXCEPT ![<<run, t>>] = FrameNew(d.sites)]
          /\ trng' = [trng EXCEPT ![OwnRng(run, t)] = d.rng]
    /\ UNCHANGED <<result, VqeFrame>>

TrajShotZ(run, t) ==
    LET f == traj[<<run, t>>]
        terms == EnergyTerms(VqeHamiltonian)
    IN  /\ CanStep(run, t)
        /\ f.pc = "shots" /\ f.shot < Shots
        /\ terms[f.term].kind = "z"
        /\ \E res \in {z_shot(f.mps, terms[f.term].i, trng[OwnRng(run, t)])} :
              /\ traj' = [traj EXCEPT ![<<run, t>>] = FrameShot(f, res)]
              /\ trng' = [trng EXCEPT ![OwnRng(run, t)] = res.rng]
        /\ UNCHANGED <<result, VqeFrame>>

TrajShotZZ(run, t) ==
    LET f == traj[<<run, t>>]
        terms == EnergyTerms(VqeHamiltonian)
    IN  /\ CanStep(run, t)
        /\ f.pc = "shots" /\ f.shot < Shots
        /\ terms[f.term].kind = "zz"
        /\ \E res \in {zz_shot(f.mps, terms[f.term].i, terms[f.term].j,
                                 trng[OwnRng(run, t)])} :
              /\ traj' = [traj EXCEPT ![<<run, t>>] = FrameShot(f, res)]
              /\ trng' = [trng EXCEPT ![OwnRng(run, t)] = res.rng]
        /\ UNCHANGED <<result, VqeFrame>>

TrajEndTerm(run, t) ==
    LET f == traj[<<run, t>>]
    IN  /\ CanStep(run, t)
        /\ f.pc = "shots" /\ f.shot = Shots
        /\ traj' = [traj EXCEPT ![<<run, t>>] =
                       FrameEndTerm(f, EnergyTerms(VqeHamiltonian), Shots)]
        /\ UNCHANGED <<trng, result, VqeFrame>>

\* for e in energies { total += e }, energies in the order of the indices
RECURSIVE SumEnergies(_, _, _)
SumEnergies(run, t, total) ==
    IF t >= NumTraj THEN total
    ELSE SumEnergies(run, t + 1, FAdd(total, traj[<<run, t>>].e))

\* collect() has every energy: total / trajectories as f64
Collect(run) ==
    /\ result.value[run] = NoValue
    /\ \A t \in Trajs : traj[<<run, t>>].pc = "done"
    /\ result' = [result EXCEPT !.value[run] =
                     <<FDiv(SumEnergies(run, 0, 0), FFromInt(NumTraj))>>]
    /\ UNCHANGED <<traj, trng, VqeFrame>>

NextVqe ==
    \/ \E run \in Runs, t \in Trajs : TrajStart(run, t)
    \/ \E run \in Runs, t \in Trajs : TrajShotZ(run, t)
    \/ \E run \in Runs, t \in Trajs : TrajShotZZ(run, t)
    \/ \E run \in Runs, t \in Trajs : TrajEndTerm(run, t)
    \/ \E run \in Runs : Collect(run)

SpecVqe == InitVqe /\ [][NextVqe]_vars

(***************************************************************************)
(* SpecMeasure: measure_z called on an MPS the caller holds, the XOF        *)
(* handing next_f64 any 8 bytes for its output.  SpecNoise: the same for   *)
(* depolarizing_1q.                                                        *)
(***************************************************************************)
MaxCalls == 2
MaxNoiseCalls == 1

\* next_f64(ctx) when the read of the 8 output bytes gives out: the fields as
\* the call leaves them and (u64::from_be_bytes(out) as f64) / (u64::MAX as f64)
DrawOf(r, ctx, out) == [rng |-> NextF64(r, ctx).rng, value |-> ToUnitF64(out)]

\* output bytes of the XOF: 0, 1/4, 1/2, 3/4, the u64 values that round to
\* 1 - 1/F64One and to 1.0, and u64::MAX
XofOuts ==
    { <<0, 0, 0, 0, 0, 0, 0, 0>>, <<64, 0, 0, 0, 0, 0, 0, 0>>,
      <<128, 0, 0, 0, 0, 0, 0, 0>>, <<192, 0, 0, 0, 0, 0, 0, 0>>,
      <<255, 255, 127, 255, 255, 255, 255, 255>>,
      <<255, 255, 255, 255, 255, 255, 255, 255>> }

\* Tensor3::zeros(1, 2, 1)
ZeroSite == Filled(1, 2, 1, [l \in {0}, p \in {0, 1}, r \in {0} |-> CZero], QOne)

\* Truncation { max_bond, cutoff } with max_bond >= 2 and a cutoff below the
\* singular values of the Bell block
BellTruncations == [max_bond : {2, 8}, cutoff : {0}]

\* MPS::new_zero(2), apply_1q(0, hadamard()), apply_cnot(psi, 0, trunc)
BellStates ==
    LET plus == Apply1q(NewZero(2), 0, hadamard)
    IN  {ApplyCnot(plus, 0, trunc, svd) :
            trunc \in BellTruncations,
            svd \in ThinSvdExact(Theta(Site(plus, 0), Site(plus, 1), cnot))}

\* the MPS values of the caller: the Bell state, |0>, |1>, |+>, |01>, and two
\* chains holding a zero tensor
MeasureInputs ==
    BellStates
    \cup {NewZero(1), Apply1q(NewZero(1), 0, pauli_x), Apply1q(NewZero(1), 0, hadamard),
          Apply1q(NewZero(2), 1, pauli_x),
          <<Site(Apply1q(NewZero(1), 0, pauli_x), 0), ZeroSite>>, <<ZeroSite>>}

MeasureProbs == {<<0, 1>>, <<3, 4>>, <<1, 1>>}

Called(op, k, out, p, outcome, gate, drew) ==
    [op |-> op, k |-> k, pre |-> psi, preRng |-> rng, u |-> ToUnitF64(out), p |-> p,
     outcome |-> outcome, gate |-> gate, drew |-> drew,
     hist |-> IF op = "measure_z" THEN Append(last.hist, <<k, outcome>>) ELSE last.hist,
     init |-> last.init]

InitMeasure ==
    /\ RngIdle /\ BrickIdle /\ ShotsIdle /\ VqeIdle
    /\ psi \in MeasureInputs
    /\ rng = ONDRngNew(SeedSeed)
    /\ runTrunc = <<>>
    /\ nOps = 0
    /\ last = [op |-> "init", k |-> 0, pre |-> psi, preRng |-> rng, u |-> 0, p |-> <<0, 1>>,
               outcome |-> 0, gate |-> "none", drew |-> FALSE, hist |-> <<>>, init |-> psi]

CallMeasureZ(k, out) ==
    /\ nOps < MaxCalls
    /\ \E res \in {MeasureZDrawn(psi, k, rng, DrawOf(rng, MEASURE_Z, out))} :
           /\ psi' = res.sites
           /\ rng' = res.rng
           /\ last' = Called("measure_z", k, out, <<0, 1>>, res.outcome, "none", res.drew)
    /\ nOps' = nOps + 1
    /\ UNCHANGED <<runTrunc, rngVars, brickVars, shotVars, vqeVars>>

CallDepolarizing1q(k, p, out) ==
    /\ nOps < MaxNoiseCalls
    /\ \E res \in {DepolarizingDrawn(psi, k, p, rng, DrawOf(rng, DEPOL_1Q, out))} :
           /\ psi' = res.sites
           /\ rng' = res.rng
           /\ last' = Called("depolarizing_1q", k, out, p, 0, res.gate, res.rng # rng)
    /\ nOps' = nOps + 1
    /\ UNCHANGED <<runTrunc, rngVars, brickVars, shotVars, vqeVars>>

NextMeasure == \E k \in 0..(Len(psi) - 1), out \in XofOuts : CallMeasureZ(k, out)

SpecMeasure == InitMeasure /\ [][NextMeasure]_vars

NextNoise ==
    \E k \in 0..(Len(psi) - 1), p \in MeasureProbs, out \in XofOuts :
        CallDepolarizing1q(k, p, out)

SpecNoise == InitMeasure /\ [][NextNoise]_vars

(***************************************************************************)
(* SpecErr: apply_1q, apply_2q_svd and the pair observables called with    *)
(* any site indices, in range or not, and any max_bond, 0 included.  A     *)
(* panic ends the run.                                                     *)
(***************************************************************************)
MaxErrCalls == 3

ErrSizes == {2, 3}
ErrTruncations == [max_bond : {0, 1, 2}, cutoff : {0}]
Observables == {"expect_zz", "expect_xx", "expect_yy"}

ErrCalled(op, k, j, trunc, panic, reads, value) ==
    [op |-> op, k |-> k, j |-> j, trunc |-> trunc, pre |-> psi,
     panic |-> panic, reads |-> reads, value |-> value]

InitErr ==
    /\ RngIdle /\ BrickIdle /\ ShotsIdle /\ VqeIdle
    /\ \E n \in ErrSizes : psi = NewZero(n)
    /\ rng = <<>>
    /\ runTrunc = <<>>
    /\ nOps = 0
    /\ last = [op |-> "new_zero", k |-> 0, j |-> 0, trunc |-> <<>>, pre |-> <<>>,
               panic |-> FALSE, reads |-> NoRead, value |-> <<>>]

ErrFrame == <<rng, runTrunc, rngVars, brickVars, shotVars, vqeVars>>

ErrApply1q(k, u) ==
    /\ ~last.panic /\ nOps < MaxErrCalls
    /\ \E res \in {Apply1qCall(psi, k, u)} :
          /\ psi' = res.sites
          /\ last' = ErrCalled("apply_1q", k, k, <<>>, res.panic, NoRead, <<>>)
    /\ nOps' = nOps + 1
    /\ UNCHANGED ErrFrame

ErrApply2qSvd(k, u, trunc) ==
    /\ ~last.panic /\ nOps < MaxErrCalls
    /\ IF Apply2qIndexPanics(psi, k)
       THEN /\ psi' = psi
            /\ last' = ErrCalled("apply_2q_svd", k, k + 1, trunc, TRUE, NoRead, <<>>)
       ELSE \E theta \in {Theta(Site(psi, k), Site(psi, k + 1), u)} :
            \E svd \in SvdResults(theta) :
               /\ psi' = Apply2qSvd(psi, k, u, trunc, svd)
               /\ last' = ErrCalled("apply_2q_svd", k, k + 1, trunc, FALSE, NoRead, <<>>)
    /\ nOps' = nOps + 1
    /\ UNCHANGED ErrFrame

ErrExpect(name, i, j) ==
    /\ ~last.panic /\ nOps < MaxErrCalls
    /\ \E res \in {ExpectPair(name, psi, i, j)} :
          last' = ErrCalled(name, i, j, <<>>, res.panic, res.reads, res.value)
    /\ nOps' = nOps + 1
    /\ UNCHANGED <<psi, ErrFrame>>

NextErr ==
    \/ \E k \in 0..Len(psi) : ErrApply1q(k, hadamard)
    \/ \E k \in 0..Len(psi), trunc \in ErrTruncations : ErrApply2qSvd(k, cnot, trunc)
    \/ \E name \in Observables, i \in 0..Len(psi), j \in 0..Len(psi) : ErrExpect(name, i, j)

SpecErr == InitErr /\ [][NextErr]_vars

(***************************************************************************)
(* SpecTensor: Tensor3::get and Tensor3::set called on a site of the       *)
(* caller's MPS with any indices                                           *)
(***************************************************************************)
MaxTensorCalls == 1

\* the values of l, p and r tried: the sites have dl, dr in 1..2 and dp = 2
TensorIndices == 0..2

TensorCalled(op, k, l, p, r, res) ==
    [op |-> op, k |-> k, l |-> l, p |-> p, r |-> r, pre |-> psi,
     panic |-> res.panic, flat |-> res.flat]

InitTensor ==
    /\ RngIdle /\ BrickIdle /\ ShotsIdle /\ VqeIdle
    /\ psi \in MeasureInputs
    /\ rng = <<>>
    /\ runTrunc = <<>>
    /\ nOps = 0
    /\ last = [op |-> "init", k |-> 0, l |-> 0, p |-> 0, r |-> 0, pre |-> psi,
               panic |-> FALSE, flat |-> <<>>]

CallGet(k, l, p, r) ==
    /\ ~last.panic /\ nOps < MaxTensorCalls
    /\ last' = TensorCalled("get", k, l, p, r, TensorGet(Site(psi, k), l, p, r))
    /\ nOps' = nOps + 1
    /\ UNCHANGED <<psi, ErrFrame>>

CallSet(k, l, p, r) ==
    /\ ~last.panic /\ nOps < MaxTensorCalls
    /\ \E res \in {TensorSetZero(Site(psi, k), l, p, r)} :
          /\ psi' = [psi EXCEPT ![k + 1] = res.tensor]
          /\ last' = TensorCalled("set", k, l, p, r, res)
    /\ nOps' = nOps + 1
    /\ UNCHANGED ErrFrame

NextTensor ==
    \/ \E k \in 0..(Len(psi) - 1), l \in TensorIndices, p \in TensorIndices,
          r \in TensorIndices : CallGet(k, l, p, r)
    \/ \E k \in 0..(Len(psi) - 1), l \in TensorIndices, p \in TensorIndices,
          r \in TensorIndices : CallSet(k, l, p, r)

SpecTensor == InitTensor /\ [][NextTensor]_vars

(***************************************************************************)
(* Claims about the MPS operations, checked under SpecMps                  *)
(***************************************************************************)
Adjacent(sites) == \A i \in 1..(Len(sites) - 1) : sites[i].dr = sites[i + 1].dl

\* C1: from new_zero(n), n >= 1, after any sequence of apply_1q, apply_2q_svd
\* (k + 1 < n, max_bond >= 1), measure_z and depolarizing_1q, adjacent sites
\* agree on their bond (sites[i].dr = sites[i+1].dl), the chain ends in bonds
\* of dimension 1, and every site has dp = 2.
C1_ChainShape ==
    /\ Len(psi) >= 1
    /\ Adjacent(psi)
    /\ psi[1].dl = 1
    /\ psi[Len(psi)].dr = 1
    /\ \A i \in 1..Len(psi) :
          psi[i].dp = 2 /\ Len(psi[i].data) = psi[i].dl * psi[i].dp * psi[i].dr

C1_Witness ==
    /\ nOps = MaxOps
    /\ last.op \in {"measure_z", "depolarizing_1q"}
    /\ last.pre # psi
    /\ chi_max(psi) = 2
    /\ runTrunc.max_bond >= 1

\* min(max_bond, #{i : sigma_i > cutoff}), and 1 when that is 0
KeptClosedForm(sigma, trunc) ==
    LET above == Cardinality({i \in 1..Len(sigma) : sigma[i] > trunc.cutoff})
        m == Min(trunc.max_bond, above)
    IN  IF m = 0 THEN 1 ELSE m

Above(sigma, trunc) == Cardinality({i \in 1..Len(sigma) : sigma[i] > trunc.cutoff})

\* C3: after apply_2q_svd(k, U, trunc) whose SVD returned sigma_0 >= sigma_1
\* >= ..., the bond between sites k and k+1 has dimension
\* min(max_bond, #{i : sigma_i > cutoff}), or 1 when that number is 0.
C3_KeptIsMinOfBondAndCount ==
    last.op = "apply_2q_svd" =>
        /\ Site(psi, last.k).dr = KeptClosedForm(last.sigma, runTrunc)
        /\ Site(psi, last.k + 1).dl = KeptClosedForm(last.sigma, runTrunc)

\* max_bond cuts the count of singular values above the cutoff
C3_Witness ==
    /\ last.op = "apply_2q_svd"
    /\ Above(last.sigma, runTrunc) > runTrunc.max_bond
    /\ Site(psi, last.k).dr = runTrunc.max_bond
    /\ last.sigma[1] > last.sigma[2]

\* C4: apply_2q_svd(k, U, trunc) with k + 1 < n replaces exactly sites k and
\* k+1, by tensors of shape (dl, 2, kept) and (kept, 2, dr) with dl the old
\* sites[k].dl and dr the old sites[k+1].dr; the number of sites and every
\* other site stay as they were.
C4_Apply2qFrame ==
    last.op = "apply_2q_svd" =>
        LET k == last.k
            kept == Site(psi, k).dr
        IN  /\ Len(psi) = Len(last.pre)
            /\ kept \in 1..Len(last.sigma)
            /\ Dims(Site(psi, k)) = <<Site(last.pre, k).dl, 2, kept>>
            /\ Dims(Site(psi, k + 1)) = <<kept, 2, Site(last.pre, k + 1).dr>>
            /\ \A i \in 0..(Len(psi) - 1) :
                  i \notin {k, k + 1} => Site(psi, i) = Site(last.pre, i)

C4_Witness ==
    /\ last.op = "apply_2q_svd"
    /\ Len(psi) = 3
    /\ last.k = 1
    /\ Site(last.pre, 1).dl = 2
    /\ Site(psi, 1).dr = 2
    /\ Site(psi, 0) = Site(last.pre, 0)

\* C5: apply_1q(k, U) with k < n replaces only site k, by a tensor of the same
\* dimensions (dl, dp, dr): no bond changes and every other site is as it was.
C5_Apply1qFrame ==
    last.op = "apply_1q" =>
        /\ Len(psi) = Len(last.pre)
        /\ Dims(Site(psi, last.k)) = Dims(Site(last.pre, last.k))
        /\ \A i \in 0..(Len(psi) - 1) :
              i # last.k => Site(psi, i) = Site(last.pre, i)

C5_Witness ==
    /\ last.op = "apply_1q"
    /\ Len(psi) = 3
    /\ Site(psi, last.k) # Site(last.pre, last.k)
    /\ Dims(Site(psi, last.k)) # <<1, 2, 1>>

(***************************************************************************)
(* The brickwork driver, checked under SpecBrick                           *)
(***************************************************************************)
\* C2: for a truncation with max_bond >= 1, after any number of brickwork
\* layers on new_zero(n), and after every pair inside a layer, chi_max (the
\* largest dl or dr over the sites) is at most max_bond.
C2_ChiMaxWithinMaxBond ==
    runTrunc.max_bond >= 1 => chi_max(psi) <= runTrunc.max_bond

\* a layer is done, the last SVD had more singular values above the cutoff
\* than max_bond allows, and the chain is at max_bond
C2_Witness ==
    /\ pos.depth >= 1
    /\ runTrunc.max_bond >= 2
    /\ last.op = "apply_random_2q"
    /\ Above(last.sigma, runTrunc) > runTrunc.max_bond
    /\ chi_max(psi) = runTrunc.max_bond

(***************************************************************************)
(* The estimators under SpecShots, noisy_vqe_energy under SpecVqe           *)
(***************************************************************************)
\* C9: noisy_vqe_energy returns the same value on every run and under every
\* interleaving of its trajectories: the value of the first call, whose
\* trajectories were interleaved in any way, is the value of the second, and
\* every trajectory ends with the same energy and the same ONDRng fields in
\* both.
C9_SameValueEveryRun ==
    /\ (result.value[1] # NoValue /\ result.value[2] # NoValue)
          => result.value[1] = result.value[2]
    /\ \A t \in Trajs :
          (traj[<<1, t>>].pc = "done" /\ traj[<<2, t>>].pc = "done")
              => /\ traj[<<1, t>>].e = traj[<<2, t>>].e
                 /\ trng[<<1, t>>] = trng[<<2, t>>]

\* both calls have returned, and two trajectories of a call ended with
\* different energies
C9_Witness ==
    /\ result.value[1] # NoValue /\ result.value[2] # NoValue
    /\ traj[<<1, 0>>].e # traj[<<1, 1>>].e
    /\ trng[<<1, 0>>].step >= 2 * Shots

\* C10: estimate_z_shots, estimate_zz_shots and estimate_energy_shots leave the
\* caller's MPS as it was at the call, after every shot, and every shot's
\* psi_copy starts as that MPS: no collapse of an earlier shot shows in it.
C10_CallerMpsUnchanged ==
    /\ frame.mps.psi = est.orig
    /\ frame.shot > 0 => frame.cloned = est.orig

\* the second shot of the ZZ loop of estimate_energy_shots has collapsed its
\* psi_copy
C10_Witness ==
    /\ est.call = "estimate_energy_shots"
    /\ frame.pc = "shots"
    /\ est.terms[frame.term].kind = "zz"
    /\ frame.shot >= 2
    /\ frame.mps.psi_copy # est.orig
    /\ frame.mps.psi = est.orig

(***************************************************************************)
(* Claims about the RNG, checked under SpecRng                             *)
(***************************************************************************)
SameSeed == rngSeed[1] = rngSeed[2]

MinLen(a, b) == IF Len(a) < Len(b) THEN Len(a) ELSE Len(b)

\* C6: two ONDRng values built from the same seed bytes and driven by the
\* same context tags return the same value at every call, and hold the same
\* (state, step) whenever they have been driven by the same sequence.
C6_SameSeedSameDraws ==
    SameSeed =>
        /\ \A j \in 1..MinLen(ctxLog[1], ctxLog[2]) :
              SubSeq(ctxLog[1], 1, j) = SubSeq(ctxLog[2], 1, j)
                  => outLog[1][j] = outLog[2][j]
        /\ ctxLog[1] = ctxLog[2] => rngs[1] = rngs[2]

C6_Witness ==
    /\ SameSeed
    /\ ctxLog[1] = ctxLog[2]
    /\ Len(ctxLog[1]) >= 2
    /\ ctxLog[1][1] # ctxLog[1][2]
    /\ rngs[1].step = Len(ctxLog[1])

\* b is a with the distinct tags at positions i and i+1 swapped
SwapAt(a, b, i) ==
    /\ Len(a) = Len(b)
    /\ i >= 1 /\ i + 1 <= Len(a)
    /\ a[i] # a[i + 1]
    /\ b[i] = a[i + 1] /\ b[i + 1] = a[i]
    /\ \A j \in (1..Len(a)) \ {i, i + 1} : a[j] = b[j]

\* C7 as claimed: with the same seed, swapping two adjacent distinct tags
\* makes every later draw differ between the two instances.
C7_SwapChangesLaterDraws ==
    SameSeed =>
        \A i \in 1..MaxDraws :
            SwapAt(ctxLog[1], ctxLog[2], i) =>
                \A j \in (i + 2)..Len(ctxLog[1]) : outLog[1][j] # outLog[2][j]

\* C7 as amended: with the same seed, swapping two adjacent distinct tags
\* leaves every later draw, and the (state, step) after the calls, identical:
\* the state never absorbs the context tag.
C7_SwapKeepsLaterDraws ==
    SameSeed =>
        \A i \in 1..MaxDraws :
            SwapAt(ctxLog[1], ctxLog[2], i) =>
                /\ \A j \in (i + 2)..Len(ctxLog[1]) : outLog[1][j] = outLog[2][j]
                /\ rngs[1] = rngs[2]

C7_Witness ==
    /\ SameSeed
    /\ \E i \in 1..MaxDraws :
          SwapAt(ctxLog[1], ctxLog[2], i) /\ i + 2 <= Len(ctxLog[1])

\* b is a with one call inserted at position i, its tag none of a's, and at
\* least one call of a after it
InsertAt(a, b, i) ==
    /\ Len(b) = Len(a) + 1
    /\ i >= 1 /\ i <= Len(a)
    /\ \A j \in 1..(i - 1) : b[j] = a[j]
    /\ \A j \in i..Len(a) : b[j + 1] = a[j]
    /\ \A j \in 1..Len(a) : a[j] # b[i]

\* C8 as claimed: one more call with an unrelated context tag in the middle of
\* a sequence leaves the values of the later draws unchanged.
C8_UnrelatedDrawKeepsLaterDraws ==
    SameSeed =>
        \A i \in 1..MaxDraws :
            InsertAt(ctxLog[1], ctxLog[2], i) =>
                \A j \in i..Len(ctxLog[1]) : outLog[2][j + 1] = outLog[1][j]

(***************************************************************************)
(* Claims about measure_z, checked under SpecMeasure                       *)
(***************************************************************************)
\* total of measure_z: w_k(0) + w_k(1), the floored weights
TotalWeight(sites, k) == Weight(sites, k, 0) + Weight(sites, k, 1)

\* C11: measure_z(psi, k, rng) on a state whose floored weights sum to
\* total = w_k(0) + w_k(1) = 0 returns outcome 0 and leaves every site of psi
\* as it was.
C11_ZeroTotalNoMutation ==
    (last.op = "measure_z" /\ TotalWeight(last.pre, last.k) = 0)
        => last.outcome = 0 /\ psi = last.pre

\* the measured site is no zero tensor itself: the weights vanish because of
\* another site, and a collapse to outcome 0 would have changed the site
C11_Witness ==
    /\ last.op = "measure_z"
    /\ TotalWeight(last.pre, last.k) = 0
    /\ Site(last.pre, last.k) # ZeroSite
    /\ Uncollapsed(last.pre, last.k, 0) # Site(last.pre, last.k)
    /\ last.outcome = 0
    /\ psi = last.pre

\* C12 as claimed: for total > 0 and every value u in [0, 1] that next_f64
\* returns, measure_z returns the first p in {0, 1} with x < w_k(p), x starting
\* at u * total and decreased by each skipped weight; the outcome returned
\* therefore has a strictly positive weight w_k(outcome) > 0.
C12_OutcomeIsFirstBelowWeight ==
    (last.op = "measure_z" /\ TotalWeight(last.pre, last.k) > 0) =>
        LET w0 == Weight(last.pre, last.k, 0) * F64One
            w1 == Weight(last.pre, last.k, 1) * F64One
            x == last.u * TotalWeight(last.pre, last.k)
        IN  /\ last.outcome = 0 => x < w0
            /\ last.outcome = 1 => (x >= w0 /\ x - w0 < w1)
            /\ Weight(last.pre, last.k, last.outcome) > 0

\* the product of the scales q of all the sites
QAll(sites, k) == QMul(QOthers(sites, k, 1), Site(sites, k).q)

\* site new is site old collapsed to the physical index o, the weight of o
\* being w * q (w the contraction of the integer parts, q the scales): zero
\* on the index 1 - o, and old[l, o, r] / sqrt(w * q) on the index o
IsCollapseOf(new, old, o, w, q) ==
    /\ Dims(new) = Dims(old)
    /\ \A l \in 0..(old.dl - 1), r \in 0..(old.dr - 1) : Get(new, l, 1 - o, r) = CZero
    /\ \E g \in 1..8 :
          /\ \A l \in 0..(old.dl - 1), r \in 0..(old.dr - 1) :
                CScale(g, Get(new, l, o, r)) = Get(old, l, o, r)
          /\ QMul(new.q, QMul(<<w, 1>>, q)) = QMul(old.q, <<g * g, 1>>)

\* C13 as claimed: after measure_z(psi, k, rng) returns outcome o on a state
\* with total > 0, site k has the dimensions it had, its entries with physical
\* index 1 - o are zero and its entries with physical index o are the old ones
\* divided by sqrt(w_k(o)); every other site is as it was.
C13_CollapseOnReturn ==
    (last.op = "measure_z" /\ TotalWeight(last.pre, last.k) > 0) =>
        /\ Len(psi) = Len(last.pre)
        /\ IsCollapseOf(Site(psi, last.k), Site(last.pre, last.k), last.outcome,
                        Weight(last.pre, last.k, last.outcome), QAll(last.pre, last.k))
        /\ \A i \in 0..(Len(psi) - 1) : i # last.k => Site(psi, i) = Site(last.pre, i)

\* C14 as claimed: on the Bell state (new_zero(2), H on site 0, CNOT on (0, 1)
\* with max_bond >= 2), measure_z on site 0 followed by measure_z on site 1
\* with the same RNG never gives the outcome pairs (0, 1) or (1, 0), whatever
\* the two draws in [0, 1].
C14_BellOutcomesAgree ==
    (last.init \in BellStates /\ Len(last.hist) = 2
        /\ last.hist[1][1] = 0 /\ last.hist[2][1] = 1)
        => last.hist[1][2] = last.hist[2][2]

(***************************************************************************)
(* Claims about depolarizing_1q, checked under SpecNoise                   *)
(***************************************************************************)
\* C15 as claimed: for every probability p in [0, 1], p = 0 included,
\* depolarizing_1q draws exactly one value, so the step counter of the RNG
\* advances by exactly 1 per call.
C15_OneDrawPerCall ==
    last.op = "depolarizing_1q" => rng.step = last.preRng.step + 1

\* C15 as amended: for p in (0, 1] depolarizing_1q draws exactly one value
\* with context "DEPOL_1Q", the RNG fields being those the one next_f64 call
\* leaves (step + 1); for p = 0 it draws none and the RNG fields, the step
\* counter among them, stay as they were.
C15_OneDrawUnlessZero ==
    last.op = "depolarizing_1q" =>
        /\ last.p[1] > 0 => rng = NextF64(last.preRng, DEPOL_1Q).rng
        /\ last.p[1] > 0 => rng.step = last.preRng.step + 1
        /\ last.p[1] = 0 => rng = last.preRng /\ psi = last.pre

\* a call with p > 0 that applied no gate, its draw being at or above p
C15_Witness ==
    /\ last.op = "depolarizing_1q"
    /\ last.p = <<3, 4>>
    /\ last.gate = "none"
    /\ rng.step = last.preRng.step + 1
    /\ rng # last.preRng

\* the Pauli matrix of a gate name
PauliOf(gate) ==
    CASE gate = "x" -> pauli_x
      [] gate = "y" -> pauli_y
      [] OTHER -> pauli_z

\* C16: depolarizing_1q with draw x and probability p applies exactly one of:
\* nothing (iff x >= p), Pauli X (iff x < p and x/p < 1/3), Pauli Y (iff x < p
\* and 1/3 <= x/p < 2/3), Pauli Z (iff x < p and x/p >= 2/3); the gate goes to
\* site k only and no dimension of any site changes.
C16_PauliByThirds ==
    last.op = "depolarizing_1q" =>
        LET x == last.u * last.p[2]       \* x and p on the common scale
            pp == last.p[1] * F64One      \* 1 / (F64One * p[2])
        IN  /\ (last.gate = "none") = (x >= pp)
            /\ (last.gate = "x") = (x < pp /\ 3 * x < pp)
            /\ (last.gate = "y") = (x < pp /\ pp <= 3 * x /\ 3 * x < 2 * pp)
            /\ (last.gate = "z") = (x < pp /\ 3 * x >= 2 * pp)
            /\ psi = IF last.gate = "none" THEN last.pre
                     ELSE Apply1q(last.pre, last.k, PauliOf(last.gate))
            /\ Len(psi) = Len(last.pre)
            /\ \A i \in 0..(Len(psi) - 1) :
                  /\ Dims(Site(psi, i)) = Dims(Site(last.pre, i))
                  /\ i # last.k => Site(psi, i) = Site(last.pre, i)

\* x/p is exactly 1/3 and Pauli Y was applied to a site of the Bell state
C16_Witness ==
    /\ last.op = "depolarizing_1q"
    /\ 3 * last.u * last.p[2] = last.p[1] * F64One
    /\ last.gate = "y"
    /\ last.init \in BellStates
    /\ Site(psi, last.k) # Site(last.pre, last.k)

(***************************************************************************)
(* Claims about programmer errors, checked under SpecErr and SpecTensor    *)
(***************************************************************************)
\* C17 as claimed: apply_2q_svd called with a truncation whose max_bond = 0
\* fails loudly (panics) instead of returning a modified MPS.
C17_MaxBondZeroPanics ==
    (last.op = "apply_2q_svd" /\ last.trunc.max_bond = 0)
        => last.panic /\ psi = last.pre

\* C18: apply_2q_svd(k, U, trunc) with k + 1 >= n and apply_1q(k, U) with
\* k >= n panic, and no site has been replaced when they do: the MPS is as it
\* was before the call.
C18_OutOfRangePanics ==
    (\/ last.op = "apply_2q_svd" /\ last.k + 1 >= Len(last.pre)
     \/ last.op = "apply_1q" /\ last.k >= Len(last.pre))
        => last.panic /\ psi = last.pre

\* apply_2q_svd on the last site of a chain that has a bond of dimension 2:
\* site k exists, site k + 1 does not
C18_Witness ==
    /\ last.op = "apply_2q_svd"
    /\ last.k + 1 = Len(last.pre)
    /\ chi_max(last.pre) = 2
    /\ last.panic
    /\ psi = last.pre

\* C19: expect_zz, expect_xx and expect_yy called with a pair (i, j), j # i + 1,
\* panic for every MPS, before any site tensor is read, and return no value.
C19_NonNeighbourPanics ==
    (last.op \in Observables /\ last.j # last.k + 1)
        => last.panic /\ last.reads = NoRead /\ last.value = <<>>

\* expect_xx(psi, 0, 2) on three sites: both sites exist and are no neighbours
C19_Witness ==
    /\ last.op = "expect_xx"
    /\ last.k = 0 /\ last.j = 2
    /\ Len(last.pre) = 3
    /\ chi_max(last.pre) = 2
    /\ last.panic
    /\ last.reads = NoRead

\* C20 as claimed: Tensor3::get(l, p, r) and Tensor3::set(l, p, r, v) are
\* bounds-checked: a call with l >= dl, p >= dp or r >= dr fails instead of
\* reading or writing any entry of the tensor.
C20_GetSetBoundsChecked ==
    (/\ last.op \in {"get", "set"}
     /\ \/ last.l >= Site(last.pre, last.k).dl
        \/ last.p >= Site(last.pre, last.k).dp
        \/ last.r >= Site(last.pre, last.k).dr)
        => last.panic /\ last.flat = <<>> /\ psi = last.pre

(***************************************************************************)
(* overlap of fidelity_sweep, and SpecOverlap: overlap called on two MPS   *)
(* the caller holds, psi and frame, in either order and each on itself     *)
(***************************************************************************)
\* one pass of overlap's loop without the conjugate on sa
OverlapStepNoConj(env, sa, sb) ==
    [j \in 1..(sa.dr * sb.dr) |->
        LET ra == (j - 1) \div sb.dr
            rb == (j - 1) % sb.dr
        IN  CSum([t \in 1..(sa.dl * sb.dl * sa.dp) |->
                    LET la == (t - 1) \div (sb.dl * sa.dp)
                        lb == ((t - 1) \div sa.dp) % sb.dl
                        p == (t - 1) % sa.dp
                    IN  CMul(env[la * sb.dl + lb + 1],
                             CMul(Get(sa, la, p, ra), Get(sb, lb, p, rb)))]
                 \o <<>>)] \o <<>>

\* one pass of overlap's loop: next[ra*sb.dr + rb] is the sum over la, lb of
\* env[la*sb.dl + lb] * sum over p of conj(sa[la, p, ra]) * sb[lb, p, rb]
OverlapStep(env, sa, sb) ==
    [j \in 1..(sa.dr * sb.dr) |->
        LET ra == (j - 1) \div sb.dr
            rb == (j - 1) % sb.dr
        IN  CSum([t \in 1..(sa.dl * sb.dl * sa.dp) |->
                    LET la == (t - 1) \div (sb.dl * sa.dp)
                        lb == ((t - 1) \div sa.dp) % sb.dl
                        p == (t - 1) % sa.dp
                    IN  CMul(env[la * sb.dl + lb + 1],
                             CMul(CConj(Get(sa, la, p, ra)), Get(sb, lb, p, rb)))]
                 \o <<>>)] \o <<>>

\* env after the first i pairs of a.sites.iter().zip(b.sites.iter())
RECURSIVE OverlapEnv(_, _, _)
OverlapEnv(a, b, i) ==
    IF i = 0
    THEN [j \in 1..(a[1].dl * b[1].dl) |-> IF j = 1 THEN COne ELSE CZero] \o <<>>
    ELSE CHOOSE next \in {OverlapStep(env, a[i], b[i]) : env \in {OverlapEnv(a, b, i - 1)}} :
             TRUE

\* the product of the scales q of the first i sites of a and of b
RECURSIVE OverlapScale(_, _, _)
OverlapScale(a, b, i) ==
    IF i = 0 THEN QOne ELSE QMul(QMul(a[i].q, b[i].q), OverlapScale(a, b, i - 1))

\* overlap(a, b): the assertion on the lengths, then the fold of the last env.
\* The value is c * sqrt(q) with c primitive, and q = 1 when c = 0.
overlap(a, b) ==
    IF Len(a) # Len(b) THEN [panic |-> TRUE, c |-> CZero, q |-> QOne]
    ELSE LET sum == CSum(OverlapEnv(a, b, Len(a)))
             g == Gcd(Abs(sum[1]), Abs(sum[2]))
         IN  IF g = 0 THEN [panic |-> FALSE, c |-> CZero, q |-> QOne]
             ELSE [panic |-> FALSE, c |-> <<sum[1] \div g, sum[2] \div g>>,
                   q |-> QMul(OverlapScale(a, b, Len(a)), <<g * g, 1>>)]

\* the MPS values handed to overlap: those of MeasureInputs, and each with
\* rx(pi/2) or rz(pi/2) applied to its site 0
OverlapInputs ==
    MeasureInputs \cup {Apply1q(s, 0, u) : s \in MeasureInputs, u \in {rx(1), rz(1)}}

OverlapCalled(first, second, a, b) ==
    [op |-> "overlap", first |-> first, second |-> second, a |-> a, b |-> b,
     value |-> overlap(a, b)]

InitOverlap ==
    /\ RngIdle /\ BrickIdle /\ VqeIdle
    /\ psi \in OverlapInputs
    /\ frame \in OverlapInputs
    /\ est = <<>>
    /\ rng = <<>>
    /\ runTrunc = <<>>
    /\ nOps = 0
    /\ last = [op |-> "init", first |-> "psi", second |-> "psi", a |-> psi, b |-> psi,
               value |-> [panic |-> FALSE, c |-> CZero, q |-> QOne]]

\* overlap(&first, &second), first and second each psi or frame
CallOverlap(first, second) ==
    /\ nOps = 0
    /\ \E a \in {IF first = "psi" THEN psi ELSE frame},
          b \in {IF second = "psi" THEN psi ELSE frame} :
           last' = OverlapCalled(first, second, a, b)
    /\ nOps' = nOps + 1
    /\ UNCHANGED <<psi, frame, est, rng, runTrunc, rngVars, brickVars, vqeVars>>

NextOverlap == \E first \in {"psi", "frame"}, second \in {"psi", "frame"} :
                   CallOverlap(first, second)

SpecOverlap == InitOverlap /\ [][NextOverlap]_vars

RatAdd(a, b) == Rat(a[1] * b[2] + b[1] * a[2], a[2] * b[2])
RatScale(n, a) == Rat(n * a[1], a[2])

\* expect_z returning w0 / denom
ExpectZFirstWeight(sites, k) ==
    LET w0 == Weight(sites, k, 0)
        w1 == Weight(sites, k, 1)
    IN  IF w0 + w1 = 0 THEN <<0, 1>> ELSE Rat(w0, w0 + w1)

\* expect_z: (w0 - w1) / denom for the site weights w0, w1, 0.0 for denom == 0.0
expect_z(sites, k) ==
    LET w0 == Weight(sites, k, 0)
        w1 == Weight(sites, k, 1)
    IN  IF w0 + w1 = 0 THEN <<0, 1>> ELSE Rat(w0 - w1, w0 + w1)

\* the value of the observable of the name at site i, or at the pair (i, i + 1)
ObsValue(name, sites, i) ==
    IF name = "expect_z" THEN expect_z(sites, i) ELSE PairValue(name, sites, i)

\* e += coefs[i] * name(psi, i [, i + 1]) for the indices from i on
RECURSIVE TermSum(_, _, _, _)
TermSum(name, sites, coefs, i) ==
    IF i > Len(coefs) THEN <<0, 1>>
    ELSE RatAdd(RatScale(coefs[i], ObsValue(name, sites, i - 1)),
                TermSum(name, sites, coefs, i + 1))

\* energy(psi, h) for the Hamiltonian { z_fields, zz_couplings }
energy(sites, h) ==
    RatAdd(TermSum("expect_z", sites, h.z_fields, 1),
           TermSum("expect_zz", sites, h.zz_couplings, 1))

\* energy_heisenberg with the jy loop reading jx
EnergyHeisenbergJxTwice(sites, h) ==
    RatAdd(RatAdd(TermSum("expect_xx", sites, h.jx, 1),
                  TermSum("expect_yy", sites, h.jx, 1)),
           TermSum("expect_zz", sites, h.jz, 1))

\* energy_heisenberg(psi, h) for the Heisenberg { jx, jy, jz }
energy_heisenberg(sites, h) ==
    RatAdd(RatAdd(TermSum("expect_xx", sites, h.jx, 1),
                  TermSum("expect_yy", sites, h.jy, 1)),
           TermSum("expect_zz", sites, h.jz, 1))

\* Truncation { max_bond, cutoff } of the run: cutoff 0 stands for a cutoff
\* below the singular values 1/sqrt(2) of the Bell block (the tests' 1e-12),
\* cutoff 1 for one not below them
TestTruncations == [max_bond : {2, 3, 8}, cutoff : {0, 1}]

Couplings == {-1, 0, 1, 2}

\* Hamiltonian { z_fields: vec![h0, h1], zz_couplings: vec![j] }
TestHamiltonians == {[z_fields |-> <<h0, h1>>, zz_couplings |-> <<j>>] :
                        h0 \in {0}, h1 \in {0, 1}, j \in Couplings}

\* Heisenberg { jx: vec![jx], jy: vec![jy], jz: vec![jz] }
TestHeisenbergs == {[jx |-> <<jx>>, jy |-> <<jy>>, jz |-> <<jz>>] :
                       jx \in Couplings, jy \in Couplings, jz \in Couplings}

Tested(op, name, k, h, value) ==
    [op |-> op, name |-> name, k |-> k, h |-> h, value |-> value]

InitBell ==
    /\ RngIdle /\ BrickIdle /\ ShotsIdle /\ VqeIdle
    /\ psi = NewZero(2)
    /\ rng = <<>>
    /\ runTrunc \in TestTruncations
    /\ nOps = 0
    /\ last = Tested("new_zero", "", 0, <<>>, <<>>)

\* psi.apply_1q(0, hadamard())
TestHadamard ==
    /\ last.op = "new_zero"
    /\ psi' = Apply1q(psi, 0, hadamard)
    /\ last' = Tested("hadamard", "", 0, <<>>, <<>>)
    /\ nOps' = nOps + 1
    /\ UNCHANGED <<rng, runTrunc, rngVars, brickVars, shotVars, vqeVars>>

\* apply_cnot(&mut psi, 0, trunc)
TestCnot ==
    /\ last.op = "hadamard"
    /\ \E theta \in {Theta(Site(psi, 0), Site(psi, 1), cnot)} :
       \E svd \in ThinSvdExact(theta) :
           psi' = ApplyCnot(psi, 0, runTrunc, svd)
    /\ last' = Tested("cnot", "", 0, <<>>, <<>>)
    /\ nOps' = nOps + 1
    /\ UNCHANGED <<rng, runTrunc, rngVars, brickVars, shotVars, vqeVars>>

\* expect_z(&psi, k)
TestExpectZ(k) ==
    /\ last.op = "cnot"
    /\ last' = Tested("observable", "expect_z", k, <<>>, expect_z(psi, k))
    /\ nOps' = nOps + 1
    /\ UNCHANGED <<psi, rng, runTrunc, rngVars, brickVars, shotVars, vqeVars>>

\* expect_zz(&psi, 0, 1), expect_xx(&psi, 0, 1), expect_yy(&psi, 0, 1)
TestExpectPair(name) ==
    /\ last.op = "cnot"
    /\ last' = Tested("observable", name, 0, <<>>, ExpectPair(name, psi, 0, 1).value[1])
    /\ nOps' = nOps + 1
    /\ UNCHANGED <<psi, rng, runTrunc, rngVars, brickVars, shotVars, vqeVars>>

\* energy(&psi, &h)
TestEnergy(h) ==
    /\ last.op = "cnot"
    /\ last' = Tested("energy", "", 0, h, energy(psi, h))
    /\ nOps' = nOps + 1
    /\ UNCHANGED <<psi, rng, runTrunc, rngVars, brickVars, shotVars, vqeVars>>

\* energy_heisenberg(&psi, &h)
TestEnergyHeisenberg(h) ==
    /\ last.op = "cnot"
    /\ last' = Tested("energy_heisenberg", "", 0, h, energy_heisenberg(psi, h))
    /\ nOps' = nOps + 1
    /\ UNCHANGED <<psi, rng, runTrunc, rngVars, brickVars, shotVars, vqeVars>>

NextBell ==
    \/ TestHadamard
    \/ TestCnot
    \/ \E k \in {0, 1} : TestExpectZ(k)
    \/ \E name \in Observables : TestExpectPair(name)
    \/ \E h \in TestHamiltonians : TestEnergy(h)
    \/ \E h \in TestHeisenbergs : TestEnergyHeisenberg(h)

SpecBell == InitBell /\ [][NextBell]_vars

\* H = Z_0 Z_1
IsingZZ == [z_fields |-> <<0, 0>>, zz_couplings |-> <<1>>]

\* what C22 and C23 say of the values on the state the test built
BellZValues ==
    /\ (last.op = "observable" /\ last.name = "expect_z") => last.value = <<0, 1>>
    /\ (last.op = "observable" /\ last.name = "expect_zz") => last.value = <<1, 1>>
    /\ (last.op = "energy" /\ last.h = IsingZZ) => last.value = <<1, 1>>

\* C22 as claimed: on the state built from new_zero(2) by H on site 0 and CNOT
\* on (0, 1) with any truncation having max_bond >= 2, expect_z(0) = 0,
\* expect_z(1) = 0, expect_zz(0, 1) = 1, and energy with H = Z_0 Z_1 is 1.
C22_BellZAnyTruncation == runTrunc.max_bond >= 2 => BellZValues

\* C22 amended: the same for any truncation having max_bond >= 2 and a cutoff
\* below the singular values 1/sqrt(2) of the Bell block.
C22_BellZCutoffBelowSigma == (runTrunc.max_bond >= 2 /\ runTrunc.cutoff = 0) => BellZValues

\* H = Z_0 Z_1 was evaluated with max_bond 3 and a cutoff below 1/sqrt(2)
C22_Witness ==
    /\ runTrunc = [max_bond |-> 3, cutoff |-> 0]
    /\ last.op = "energy"
    /\ last.h = IsingZZ
    /\ chi_max(psi) = 2

\* C23: on the Bell state, expect_xx(0, 1) = 1, expect_yy(0, 1) = -1 and
\* expect_zz(0, 1) = 1, and for every coupling triple (Jx, Jy, Jz)
\* energy_heisenberg returns Jx - Jy + Jz.
C23_BellHeisenberg ==
    psi \in BellStates =>
        /\ (last.op = "observable" /\ last.name = "expect_xx") => last.value = <<1, 1>>
        /\ (last.op = "observable" /\ last.name = "expect_yy") => last.value = <<-1, 1>>
        /\ (last.op = "observable" /\ last.name = "expect_zz") => last.value = <<1, 1>>
        /\ last.op = "energy_heisenberg" =>
              last.value = <<last.h.jx[1] - last.h.jy[1] + last.h.jz[1], 1>>

\* energy_heisenberg was evaluated on the Bell state with Jx = 1, Jy = 2, Jz = -1
C23_Witness ==
    /\ psi \in BellStates
    /\ last.op = "energy_heisenberg"
    /\ last.h = [jx |-> <<1>>, jy |-> <<2>>, jz |-> <<-1>>]
    /\ last.value = <<-2, 1>>

(***************************************************************************)
(* SpecEst: one call of estimate_z_shots, estimate_zz_shots or             *)
(* estimate_energy_shots with shots in 0..MaxShots, statement by statement:*)
(* the clone, each measure_z, the addition to sum, the end of a loop.  The *)
(* XOF hands next_f64 any of three outputs.  last logs the measure_z calls *)
(* of the whole call, ctxLog the contexts of the values drawn.             *)
(***************************************************************************)
MaxShots == 2

\* output bytes of the XOF: 0, 3/4 and u64::MAX
EstOuts == {<<0, 0, 0, 0, 0, 0, 0, 0>>, <<192, 0, 0, 0, 0, 0, 0, 0>>,
            <<255, 255, 255, 255, 255, 255, 255, 255>>}

\* the caller's MPS: the Bell state, |+0>, |01>, and |1> beside a zero tensor
EstInputs ==
    BellStates \cup {Apply1q(NewZero(2), 0, hadamard), Apply1q(NewZero(2), 1, pauli_x),
                     <<Site(Apply1q(NewZero(1), 0, pauli_x), 0), ZeroSite>>}

\* Hamiltonian { z_fields, zz_couplings } on two sites, coefficients 0.0 and 1.0
EstHamiltonians ==
    {[z_fields |-> zf, zz_couplings |-> zc] :
        zf \in {<<>>, <<0, FUnit>>}, zc \in {<<0>>, <<FUnit>>}}

\* the calls: their name, their arguments and the loops they run
EstCalls ==
    {[name |-> "estimate_z_shots", h |-> <<>>,
      terms |-> <<[kind |-> "z", i |-> k, j |-> k, coef |-> FUnit]>>] : k \in {0, 1}}
    \cup {[name |-> "estimate_zz_shots", h |-> <<>>,
           terms |-> <<[kind |-> "zz", i |-> ij[1], j |-> ij[2], coef |-> FUnit]>>] :
             ij \in {<<0, 1>>, <<1, 0>>}}
    \cup {[name |-> "estimate_energy_shots", h |-> h, terms |-> EnergyTerms(h)] :
             h \in EstHamiltonians}

\* the MPS the second measure_z of a shot is handed, were it a fresh clone
SecondTargetFresh(f, sites) == sites

\* the MPS the second measure_z of a shot is handed: &mut psi_copy, the clone
\* the first one has measured
SecondTarget(f, sites) == f.psi_copy

InitEst ==
    /\ BrickIdle /\ VqeIdle
    /\ rngs = <<>> /\ rngSeed = <<>> /\ outLog = <<>>
    /\ ctxLog = <<>>
    /\ psi \in EstInputs
    /\ rng = ONDRngNew(SeedShots)
    /\ runTrunc = <<>>
    /\ nOps = 0
    /\ last = <<>>
    /\ frame = [pc |-> "clone", term |-> 1, shot |-> 0, sum |-> 0, e |-> 0,
                psi_copy |-> <<>>, events |-> <<>>, outs |-> <<>>]
    /\ \E call \in EstCalls, shots \in 0..MaxShots :
          est = [call |-> call.name, h |-> call.h, terms |-> call.terms, shots |-> shots,
                 orig |-> psi, step0 |-> rng.step, value |-> NoValue]

EstFrame == <<psi, runTrunc, rngs, rngSeed, outLog, brickVars, vqeVars>>

\* let mut psi_copy = psi.clone()
EstClone ==
    /\ frame.pc = "clone" /\ frame.shot < est.shots
    /\ frame' = [frame EXCEPT !.psi_copy = psi, !.events = <<>>, !.pc = "first"]
    /\ nOps' = nOps + 1
    /\ UNCHANGED <<rng, est, last, ctxLog, EstFrame>>

\* the frame, the RNG and the logs after measure_z(target, site, rng) returned
\* res; the next statement is at pc
EstMeasured(target, site, res, pc) ==
    /\ frame' = [frame EXCEPT !.psi_copy = res.sites, !.pc = pc,
                    !.events = Append(@, [site |-> site, pre |-> target, post |-> res.sites,
                                          rngPre |-> rng, rngPost |-> res.rng,
                                          outcome |-> res.outcome])]
    /\ rng' = res.rng
    /\ last' = Append(last, [term |-> frame.term, site |-> site, drew |-> res.drew])
    /\ ctxLog' = IF res.drew THEN Append(ctxLog, MEASURE_Z) ELSE ctxLog
    /\ nOps' = nOps + 1
    /\ UNCHANGED <<est, EstFrame>>

\* let m = measure_z(&mut psi_copy, k, rng), and let mi = ... of estimate_zz_shots
EstMeasureFirst(out) ==
    /\ frame.pc = "first"
    /\ \E term \in {est.terms[frame.term]} :
       \E res \in {MeasureZDrawn(frame.psi_copy, term.i, rng, DrawOf(rng, MEASURE_Z, out))} :
           EstMeasured(frame.psi_copy, term.i, res, IF term.kind = "zz" THEN "second" ELSE "add")

\* let mj = measure_z(&mut psi_copy, j, rng)
EstMeasureSecond(out) ==
    /\ frame.pc = "second"
    /\ \E term \in {est.terms[frame.term]}, target \in {SecondTarget(frame, psi)} :
       \E res \in {MeasureZDrawn(target, term.j, rng, DrawOf(rng, MEASURE_Z, out))} :
           EstMeasured(target, term.j, res, "add")

\* sum += if m == 0 { 1.0 } else { -1.0 }, and sum += zi * zj
EstAdd ==
    /\ frame.pc = "add"
    /\ \E zs \in {[n \in 1..Len(frame.events) |-> ZValue(frame.events[n].outcome)] \o <<>>} :
          frame' = [frame EXCEPT
                       !.sum = FAdd(@, IF Len(zs) = 1 THEN zs[1] ELSE FMul(zs[1], zs[2])),
                       !.outs = Append(@, [n \in 1..Len(zs) |-> frame.events[n].outcome] \o <<>>),
                       !.shot = @ + 1, !.pc = "clone"]
    /\ nOps' = nOps + 1
    /\ UNCHANGED <<rng, est, last, ctxLog, EstFrame>>

\* the loop over the shots has ended, at once when shots == 0: estimate_z_shots
\* and estimate_zz_shots return sum / shots (0.0 for shots == 0),
\* estimate_energy_shots adds coef * that and goes on to its next term
EstEndTerm ==
    /\ frame.pc = "clone" /\ frame.shot = est.shots
    /\ \E f \in {FrameEndTerm(frame, est.terms, est.shots)} :
          /\ frame' = [f EXCEPT !.outs = IF f.pc = "done" THEN frame.outs ELSE <<>>,
                                !.pc = IF f.pc = "done" THEN "done" ELSE "clone"]
          /\ est' = [est EXCEPT !.value =
                        IF f.pc # "done" THEN NoValue
                        ELSE IF est.call = "estimate_energy_shots" THEN <<f.e>>
                        ELSE <<ShotMean(frame.sum, est.shots)>>]
    /\ nOps' = nOps + 1
    /\ UNCHANGED <<rng, last, ctxLog, EstFrame>>

NextEst ==
    \/ EstClone
    \/ \E out \in EstOuts : EstMeasureFirst(out)
    \/ \E out \in EstOuts : EstMeasureSecond(out)
    \/ EstAdd
    \/ EstEndTerm

SpecEst == InitEst /\ [][NextEst]_vars

\* the sum over the recorded shots of z_i * z_j, outcome 0 -> +1, 1 -> -1
RECURSIVE ProductSum(_, _)
ProductSum(outs, n) ==
    IF n = 0 THEN 0
    ELSE (1 - 2 * outs[n][1]) * (1 - 2 * outs[n][2]) + ProductSum(outs, n - 1)

\* C24: in every shot of estimate_zz_shots(psi, i, j, rng, shots) a fresh
\* clone of psi is taken, site i is measured first and site j is then measured
\* on that same already-collapsed clone; the value returned is the sum over the
\* shots of z_i * z_j (outcome 0 -> +1, 1 -> -1) divided by shots.
C24_ZZShotOrder ==
    est.call = "estimate_zz_shots" =>
        /\ psi = est.orig
        /\ frame.pc = "first" => frame.psi_copy = est.orig /\ frame.events = <<>>
        /\ frame.pc \in {"second", "add"} =>
              /\ frame.events[1].site = est.terms[1].i
              /\ frame.events[1].pre = est.orig
              /\ frame.psi_copy = frame.events[Len(frame.events)].post
        /\ frame.pc = "second" => Len(frame.events) = 1
        /\ frame.pc = "add" =>
              /\ Len(frame.events) = 2
              /\ frame.events[2].site = est.terms[1].j
              /\ frame.events[2].pre = frame.events[1].post
        /\ (frame.pc = "done" /\ est.shots > 0) =>
              /\ Len(frame.outs) = est.shots
              /\ est.value = <<FDiv(FFromInt(ProductSum(frame.outs, est.shots)),
                                    FFromInt(est.shots))>>

\* estimate_zz_shots(psi, 1, 0, rng, 2) on the Bell state has measured site 1
\* with outcome 1, which collapsed the clone, and then site 0
C24_Witness ==
    /\ est.call = "estimate_zz_shots"
    /\ est.terms[1].i = 1
    /\ est.orig \in BellStates
    /\ frame.pc = "add"
    /\ frame.shot = 1
    /\ frame.events[1].outcome = 1
    /\ frame.events[1].post # est.orig
    /\ frame.events[2].site = 0

RECURSIVE Repeat(_, _)
Repeat(seq, n) == IF n = 0 THEN <<>> ELSE seq \o Repeat(seq, n - 1)

\* the measure_z calls <<term, site>> of estimate_energy_shots(psi, h, rng, shots)
\* from its term t on: the z_fields in index order, one call a shot, then the
\* zz_couplings in index order, sites i and i + 1 in every shot
RECURSIVE MeasuresFrom(_, _, _)
MeasuresFrom(h, shots, t) ==
    IF t > Len(h.z_fields) + Len(h.zz_couplings) THEN <<>>
    ELSE (IF t <= Len(h.z_fields) THEN Repeat(<< <<t, t - 1>> >>, shots)
          ELSE Repeat(<< <<t, t - Len(h.z_fields) - 1>>, <<t, t - Len(h.z_fields)>> >>, shots))
         \o MeasuresFrom(h, shots, t + 1)

\* the number of values the call is to draw when every measured total is positive
DrawsDue ==
    CASE est.call = "estimate_z_shots" -> est.shots
      [] est.call = "estimate_zz_shots" -> 2 * est.shots
      [] OTHER -> est.shots * (Len(est.h.z_fields) + 2 * Len(est.h.zz_couplings))

\* C28: measure_z draws one value with context "MEASURE_Z" when total > 0 and
\* none when total = 0; where all measured totals are positive,
\* estimate_z_shots draws exactly shots values, estimate_zz_shots 2*shots and
\* estimate_energy_shots shots*(len(z_fields) + 2*len(zz_couplings)), all
\* z_fields in index order before the zz_couplings, also for terms whose
\* coefficient is 0; with shots = 0 nothing is drawn and 0 is returned.
C28_ExactDraws ==
    /\ \A n \in 1..Len(frame.events) :
          frame.events[n].rngPost.step =
              frame.events[n].rngPre.step
                  + (IF TotalWeight(frame.events[n].pre, frame.events[n].site) > 0
                     THEN 1 ELSE 0)
    /\ Len(ctxLog) = rng.step - est.step0
    /\ \A n \in 1..Len(ctxLog) : ctxLog[n] = MEASURE_Z
    /\ Len(ctxLog) = Cardinality({n \in 1..Len(last) : last[n].drew})
    /\ frame.pc = "done" =>
          /\ (\A n \in 1..Len(last) : last[n].drew) => rng.step - est.step0 = DrawsDue
          /\ est.call = "estimate_energy_shots" =>
                [n \in 1..Len(last) |-> <<last[n].term, last[n].site>>]
                    = MeasuresFrom(est.h, est.shots, 1)
          /\ est.shots = 0 => rng = ONDRngNew(SeedShots) /\ last = <<>> /\ est.value = <<0>>

\* estimate_energy_shots with z_fields = [0.0, 1.0], zz_couplings = [0.0] and
\* shots = 2 has returned after 2 * (2 + 2) draws
C28_Witness ==
    /\ est.call = "estimate_energy_shots"
    /\ est.h = [z_fields |-> <<0, FUnit>>, zz_couplings |-> <<0>>]
    /\ est.shots = 2
    /\ frame.pc = "done"
    /\ rng.step - est.step0 = 8
    /\ Len(last) = 8

(***************************************************************************)
(* SpecSvd: apply_1q and apply_2q_svd on new_zero(n), thin_svd handing     *)
(* back singular values of which any may be NaN or +infinity.  cls[i] says *)
(* which s[i] is; s[i] is its level when it is finite.                     *)
(***************************************************************************)
MaxSvdOps == 2

SvClasses == {"finite", "NaN", "inf"}

\* theta.thin_svd() with every class of f64 for each singular value
SvdResultsF64(theta) ==
    {[s |-> svd.s, q |-> svd.q, u |-> svd.u, v |-> svd.v, cls |-> cls] :
        svd \in SvdResults(theta), cls \in [1..Min(theta.rows, theta.cols) -> SvClasses]}

\* sv > trunc.cutoff on f64: false for NaN, true for +infinity
SvAbove(sv, cls, cutoff) ==
    CASE cls = "NaN" -> FALSE
      [] cls = "inf" -> TRUE
      [] OTHER -> sv > cutoff

\* for i in 0..s.nrows(): if sv > trunc.cutoff && kept < trunc.max_bond { kept += 1 }
RECURSIVE KeptLoopF64(_, _, _, _)
KeptLoopF64(svd, trunc, i, kept) ==
    IF i > Len(svd.s) THEN kept
    ELSE KeptLoopF64(svd, trunc, i + 1,
                     IF SvAbove(svd.s[i], svd.cls[i], trunc.cutoff) /\ kept < trunc.max_bond
                     THEN kept + 1 ELSE kept)

\* apply_2q_svd(k, u, trunc) from thin_svd's result on: kept, new_a, new_b
\* and the two assignments to self.sites.  No statement looks whether a
\* singular value is finite.  nonfinite: the columns m of new_a whose entries
\* u_val * s_vals[m] are not finite
Apply2qSvdF64(sites, k, u, trunc, svd) ==
    LET a == Site(sites, k)
        b == Site(sites, k + 1)
        loop == KeptLoopF64(svd, trunc, 1, 0)
        kept == IF loop = 0 THEN 1 ELSE loop
        bad == {m \in 1..kept : svd.cls[m] # "finite"}
        newA == NewA(svd, a.dl, kept)
    IN  [panic |-> FALSE,
         nonfinite |-> bad,
         sites |-> ReplacePair(sites, k,
                               IF bad = {} THEN newA
                               ELSE [dl |-> newA.dl, dp |-> newA.dp, dr |-> newA.dr,
                                     data |-> newA.data, q |-> newA.q, nonfinite |-> bad],
                               NewB(svd, kept, b.dr))]

SvdCalled(op, k, cls, res) ==
    [op |-> op, k |-> k, pre |-> psi, cls |-> cls, panic |-> res.panic,
     nonfinite |-> res.nonfinite]

InitSvd ==
    /\ RngIdle /\ BrickIdle /\ ShotsIdle /\ VqeIdle
    /\ \E n \in {2, 3} : psi = NewZero(n)
    /\ rng = <<>>
    /\ runTrunc \in Truncations
    /\ nOps = 0
    /\ last = [op |-> "new_zero", k |-> 0, pre |-> <<>>, cls |-> <<>>, panic |-> FALSE,
               nonfinite |-> {}]

\* psi.apply_1q(k, u)
SvdApply1q(k, u) ==
    /\ nOps < MaxSvdOps /\ last.nonfinite = {}
    /\ psi' = Apply1q(psi, k, u)
    /\ last' = SvdCalled("apply_1q", k, <<>>, [panic |-> FALSE, nonfinite |-> {}])
    /\ nOps' = nOps + 1
    /\ UNCHANGED <<rng, runTrunc, rngVars, brickVars, shotVars, vqeVars>>

\* psi.apply_2q_svd(k, u, trunc)
SvdApply2qSvd(k, u) ==
    /\ nOps < MaxSvdOps /\ last.nonfinite = {}
    /\ k + 1 < Len(psi)
    /\ \E theta \in {Theta(Site(psi, k), Site(psi, k + 1), u)} :
       \E svd \in SvdResultsF64(theta) :
       \E res \in {Apply2qSvdF64(psi, k, u, runTrunc, svd)} :
          /\ psi' = IF res.panic THEN psi ELSE res.sites
          /\ last' = SvdCalled("apply_2q_svd", k, svd.cls, res)
    /\ nOps' = nOps + 1
    /\ UNCHANGED <<rng, runTrunc, rngVars, brickVars, shotVars, vqeVars>>

NextSvd ==
    \/ \E k \in 0..(Len(psi) - 1), u \in Gates1q : SvdApply1q(k, u)
    \/ \E k \in 0..(Len(psi) - 1), u \in Gates2q : SvdApply2qSvd(k, u)

SpecSvd == InitSvd /\ [][NextSvd]_vars

\* C25 as claimed: if the SVD inside apply_2q_svd yields a non-finite singular
\* value (NaN or infinity), the call ends in a fatal failure and installs no
\* new site tensors in the MPS.
C25_NonFiniteSigmaIsFatal ==
    (/\ last.op = "apply_2q_svd"
     /\ \E i \in 1..Len(last.cls) : last.cls[i] # "finite")
        => last.panic /\ psi = last.pre

(***************************************************************************)
(* SpecF64: next_f64 statement by statement on one ONDRng.  frame holds    *)
(* the locals of the call: where it stands, ctx, the fields at the call,   *)
(* out, and the statements run so far.                                     *)
(***************************************************************************)
MaxF64Calls == 3

\* the test of the SKIP re-hash never holding
SkipNever(state) == FALSE

\* if self.state[0] < 16
SkipDue(state) == state[1] < SkipBelow

F64Seeds == {SeedSeed, SeedShots} \cup BrickSeeds

InitF64 ==
    /\ BrickIdle /\ VqeIdle
    /\ rngs = <<>> /\ rngSeed = <<>> /\ ctxLog = <<>> /\ outLog = <<>>
    /\ psi = <<>> /\ runTrunc = <<>> /\ last = <<>> /\ est = <<>>
    /\ nOps = 0
    /\ \E seed \in F64Seeds : rng = ONDRngNew(seed)
    /\ frame = [pc |-> "idle", ctx |-> <<>>, pre |-> rng, out |-> <<>>, done |-> <<>>]

F64Frame == <<rngs, rngSeed, psi, runTrunc, last, est, brickVars, vqeVars>>

\* the call, and self.step += 1
F64IncStep(ctx) ==
    /\ frame.pc = "idle" /\ nOps < MaxF64Calls
    /\ rng' = [rng EXCEPT !.step = @ + 1]
    /\ frame' = [pc |-> "advance", ctx |-> ctx, pre |-> rng, out |-> <<>>, done |-> <<"step">>]
    /\ UNCHANGED <<nOps, ctxLog, outLog, F64Frame>>

\* shake(&[&state, &step_bytes, b"QSIM"], &mut next_state); self.state = next_state
F64Advance ==
    /\ frame.pc = "advance"
    /\ rng' = [rng EXCEPT !.state = AdvanceState(rng.state, rng.step, frame.ctx)]
    /\ frame' = [frame EXCEPT !.pc = "output", !.done = Append(@, "state")]
    /\ UNCHANGED <<nOps, ctxLog, outLog, F64Frame>>

\* shake(&[&self.state, ctx], &mut out)
F64Output ==
    /\ frame.pc = "output"
    /\ frame' = [frame EXCEPT !.pc = "skip", !.out = shake(<<rng.state, frame.ctx>>, OutLen),
                              !.done = Append(@, "output")]
    /\ UNCHANGED <<rng, nOps, ctxLog, outLog, F64Frame>>

\* if self.state[0] < 16 { shake(&[&state, b"SKIP"], &mut next_state); ... }
F64Skip ==
    /\ frame.pc = "skip"
    /\ IF SkipDue(rng.state)
       THEN /\ rng' = [rng EXCEPT !.state = shake(<<rng.state, SKIP>>, StateLen)]
            /\ frame' = [frame EXCEPT !.pc = "return", !.done = Append(@, "skip")]
       ELSE /\ rng' = rng
            /\ frame' = [frame EXCEPT !.pc = "return"]
    /\ UNCHANGED <<nOps, ctxLog, outLog, F64Frame>>

\* (u64::from_be_bytes(out) as f64) / (u64::MAX as f64)
F64Return ==
    /\ frame.pc = "return"
    /\ frame' = [frame EXCEPT !.pc = "idle"]
    /\ outLog' = Append(outLog, ToUnitF64(frame.out))
    /\ ctxLog' = Append(ctxLog, frame.ctx)
    /\ nOps' = nOps + 1
    /\ UNCHANGED <<rng, F64Frame>>

NextF64Steps ==
    \/ \E ctx \in Tags : F64IncStep(ctx)
    \/ F64Advance
    \/ F64Output
    \/ F64Skip
    \/ F64Return

SpecF64 == InitF64 /\ [][NextF64Steps]_vars

\* H(state, step_be, "QSIM") of the fields at the call, the step incremented
StateAfterQsim == shake(<<frame.pre.state, BeBytes(frame.pre.step + 1, StepLen), QSIM>>, StateLen)

\* C26: each next_f64(ctx) call performs, in this order: step := step + 1;
\* state := H(state, step_be, "QSIM") with the already-incremented step;
\* output := H(state, ctx) from that state; then, iff the first byte of that
\* state is below 16, state := H(state, "SKIP").  The step grows by exactly 1
\* a call and the value returned never depends on the SKIP re-hash.
C26_NextF64Order ==
    /\ frame.pc = "advance" =>
          /\ frame.done = <<"step">>
          /\ rng = [state |-> frame.pre.state, step |-> frame.pre.step + 1]
    /\ frame.pc = "output" =>
          /\ frame.done = <<"step", "state">>
          /\ rng = [state |-> StateAfterQsim, step |-> frame.pre.step + 1]
    /\ frame.pc = "skip" =>
          /\ frame.done = <<"step", "state", "output">>
          /\ rng = [state |-> StateAfterQsim, step |-> frame.pre.step + 1]
          /\ frame.out = shake(<<StateAfterQsim, frame.ctx>>, OutLen)
    /\ (frame.pc \in {"return", "idle"} /\ frame.done # <<>>) =>
          /\ rng.step = frame.pre.step + 1
          /\ frame.out = shake(<<StateAfterQsim, frame.ctx>>, OutLen)
          /\ IF StateAfterQsim[1] < SkipBelow
             THEN /\ frame.done = <<"step", "state", "output", "skip">>
                  /\ rng.state = shake(<<StateAfterQsim, SKIP>>, StateLen)
             ELSE /\ frame.done = <<"step", "state", "output">>
                  /\ rng.state = StateAfterQsim
    /\ rng.step = nOps + (IF frame.pc = "idle" THEN 0 ELSE 1)
    /\ (frame.pc = "idle" /\ nOps > 0) => outLog[nOps] = ToUnitF64(frame.out)

\* a call whose state after the QSIM hash began with a byte below 16 has
\* returned, the SKIP re-hash done
C26_Witness ==
    /\ frame.pc = "idle"
    /\ frame.done = <<"step", "state", "output", "skip">>
    /\ StateAfterQsim[1] < SkipBelow
    /\ rng.state # StateAfterQsim

(***************************************************************************)
(* SpecSweep: the brickwork drivers.  chi_sweep's main: the two checks of  *)
(* its arguments, then for each max_bond a fresh RNG and MPS and the depth *)
(* loop in steps of depth_step, one row a step.  error_sweep's run_energy  *)
(* and fidelity_sweep's build_state: for each chi a fresh RNG and MPS and  *)
(* depth layers.  chi_sweep and error_sweep draw the six angles of a gate  *)
(* as they apply it; fidelity_sweep draws those of a whole layer first.    *)
(* est holds the arguments, pos the place in the loops, outLog the gates   *)
(* applied since the MPS was made, last the pairs of the layer, result the *)
(* rows.                                                                  *)
(***************************************************************************)
DepthMax == 2

SweepDrivers == {"chi_sweep", "error_sweep", "fidelity_sweep"}
SweepSizes == {2, 3, 4}
DepthSteps == 0..3

\* the values of max_bond in their order: --max-bond of chi_sweep, chi_ref
\* and then --chi-test of fidelity_sweep and error_sweep
BondLists(driver) == IF driver = "chi_sweep" THEN {<<>>, <<1>>, <<2, 1>>} ELSE {<<2>>, <<2, 1>>}

\* the contexts of the six draws of a gate, in the order of the draws
GateContexts == <<RZ0, RX0, RZ1, RZ2, RX1, RZ3>>

\* while i + 1 < n
PairInRange(i, n) == i + 1 < n

\* the loop of apply_pairs going on to the next site
NextPairAdjacent(i) == i + 1

\* i += 2
NextPair(i) == i + 2

\* rand_angle for each of the contexts in turn: the angles and the RNG fields
RECURSIVE DrawAngles(_, _, _)
DrawAngles(r, ctxs, acc) ==
    IF ctxs = <<>> THEN [rng |-> r, angles |-> acc]
    ELSE CHOOSE res \in {DrawAngles(d.rng, Tail(ctxs), Append(acc, d.j)) :
                            d \in {rand_angle(r, Head(ctxs))}} : TRUE

\* GateParams { k, a0, b0, c0, a1, b1, c1 } drawn from r, and r after it
GateParamsDrawn(r, k) ==
    CHOOSE res \in {[rng |-> d.rng, gate |-> [k |-> k, angles |-> d.angles]] :
                       d \in {DrawAngles(r, GateContexts, <<>>)}} : TRUE

\* one while loop of build_layer_params, from i on
RECURSIVE PairsFrom(_, _, _, _)
PairsFrom(n, r, i, acc) ==
    IF ~PairInRange(i, n) THEN [rng |-> r, layer |-> acc]
    ELSE CHOOSE res \in {PairsFrom(n, g.rng, NextPair(i), Append(acc, g.gate)) :
                            g \in {GateParamsDrawn(r, i)}} : TRUE

\* build_layer_params handing its second loop the RNG fields the layer began with
BuildLayerParamsRngByValue(n, r) ==
    CHOOSE res \in {PairsFrom(n, r, 1, even.layer) : even \in {PairsFrom(n, r, 0, <<>>)}} : TRUE

\* build_layer_params(n, rng): for start in [0, 1] the loop over the pairs
build_layer_params(n, r) ==
    CHOOSE res \in {PairsFrom(n, even.rng, 1, even.layer) :
                       even \in {PairsFrom(n, r, 0, <<>>)}} : TRUE

\* the six apply_1q of apply_random_2q and apply_gate_params from the t-th on:
\* rz, rx, rz on site k, then rz, rx, rz on site k + 1
RECURSIVE GateRotated(_, _, _)
GateRotated(sites, gate, t) ==
    IF t > 6 THEN sites
    ELSE CHOOSE res \in {GateRotated(s, gate, t + 1) :
            s \in {Apply1q(sites, IF t <= 3 THEN gate.k ELSE gate.k + 1,
                           IF t \in {2, 5} THEN rx(gate.angles[t]) ELSE rz(gate.angles[t]))}} :
            TRUE

\* let layers = (args.depth_max - depth).min(args.depth_step), without the min
LayersWhole(args, depth) == args.depth_step

\* let layers = (args.depth_max - depth).min(args.depth_step); run_energy and
\* build_state run all their depth layers in one loop
LayersOf(args, depth) ==
    IF args.driver = "chi_sweep" THEN Min(args.depth_max - depth, args.depth_step)
    ELSE args.depth_max

\* the arguments a run may be given
SweepArgs ==
    {[driver |-> driver, n |-> n, seed |-> seed, depth_max |-> depth_max,
      depth_step |-> IF driver = "chi_sweep" THEN depth_step ELSE 0,
      bonds |-> bonds, cutoff |-> 0] :
        driver \in SweepDrivers, n \in SweepSizes, seed \in BrickSeeds,
        depth_max \in 0..DepthMax, depth_step \in DepthSteps,
        bonds \in UNION {BondLists(d) : d \in SweepDrivers}}

NoArgs == <<>>

\* the process before Args::parse()
InitSweep ==
    /\ RngIdle /\ VqeIdle
    /\ frame = <<>>
    /\ est = NoArgs
    /\ psi = <<>> /\ rng = <<>> /\ runTrunc = <<>>
    /\ nOps = 0
    /\ last = [ks |-> <<>>, full |-> FALSE]
    /\ result = <<>>
    /\ pos = [pc |-> "parse", bond |-> 1, depth |-> 0, left |-> 0, start |-> 0, i |-> 0,
              layer |-> <<>>]

\* let args = Args::parse()
SweepParse ==
    /\ pos.pc = "parse"
    /\ \E args \in SweepArgs :
          /\ args.bonds \in BondLists(args.driver)
          /\ est' = args
    /\ pos' = [pos EXCEPT !.pc = "main"]
    /\ UNCHANGED <<psi, rng, runTrunc, last, result, nOps, frame, rngVars, vqeVars>>

SweepFrame == <<est, nOps, frame, rngVars, vqeVars>>

\* if args.depth_step == 0 { ...; std::process::exit(1) }
SweepRejectStep ==
    /\ pos.pc = "main"
    /\ est.driver = "chi_sweep" /\ est.depth_step = 0
    /\ pos' = [pos EXCEPT !.pc = "exit"]
    /\ UNCHANGED <<psi, rng, runTrunc, last, result, SweepFrame>>

\* if max_bonds.is_empty() { ...; std::process::exit(1) }
SweepRejectBonds ==
    /\ pos.pc = "main"
    /\ est.driver = "chi_sweep" /\ est.depth_step # 0 /\ est.bonds = <<>>
    /\ pos' = [pos EXCEPT !.pc = "exit"]
    /\ UNCHANGED <<psi, rng, runTrunc, last, result, SweepFrame>>

\* the body of "for &max_bond in &max_bonds" down to "let mut depth = 0", and
\* the head of run_energy and of build_state
SweepBond ==
    /\ \/ pos.pc = "bond"
       \/ /\ pos.pc = "main"
          /\ est.driver = "chi_sweep" => est.depth_step # 0 /\ est.bonds # <<>>
    /\ runTrunc' = [max_bond |-> est.bonds[pos.bond], cutoff |-> est.cutoff]
    /\ rng' = ONDRngNew(est.seed)
    /\ psi' = NewZero(est.n)
    /\ outLog' = <<>>
    /\ pos' = [pos EXCEPT !.pc = "while", !.depth = 0]
    /\ UNCHANGED <<last, result, est, nOps, frame, rngs, rngSeed, ctxLog, vqeVars>>

\* while depth < args.depth_max { let layers = ...; and "for _ in 0..depth"
SweepIter ==
    /\ pos.pc = "while"
    /\ pos.depth < est.depth_max
    /\ pos' = [pos EXCEPT !.pc = "for", !.left = LayersOf(est, pos.depth)]
    /\ UNCHANGED <<psi, rng, runTrunc, last, result, outLog, est, nOps, frame, rngs,
                   rngSeed, ctxLog, vqeVars>>

\* apply_brickwork_layer of chi_sweep and error_sweep is entered
SweepLayer ==
    /\ pos.pc = "for" /\ pos.left > 0
    /\ est.driver # "fidelity_sweep"
    /\ pos' = [pos EXCEPT !.pc = "pairs", !.start = 0, !.i = 0]
    /\ last' = [ks |-> <<>>, full |-> FALSE]
    /\ UNCHANGED <<psi, rng, runTrunc, result, outLog, est, nOps, frame, rngs, rngSeed,
                   ctxLog, vqeVars>>

\* the gate applied to psi: the six apply_1q, then apply_cnot(psi, k, trunc)
SweepGate(gate) ==
    \E s6 \in {GateRotated(psi, gate, 1)} :
    \E theta \in {Theta(Site(s6, gate.k), Site(s6, gate.k + 1), cnot)} :
    \E svd \in SvdResults(theta) :
        /\ psi' = ApplyCnot(s6, gate.k, runTrunc, svd)
        /\ outLog' = Append(outLog, gate)
        /\ last' = [last EXCEPT !.ks = Append(@, gate.k)]

\* one turn of the while loop of apply_pairs: apply_random_2q(psi, i, trunc, rng); i += 2
SweepRandom2q ==
    /\ pos.pc = "pairs"
    /\ PairInRange(pos.i, est.n)
    /\ \E g \in {GateParamsDrawn(rng, pos.i)} :
          /\ rng' = g.rng
          /\ SweepGate(g.gate)
    /\ pos' = [pos EXCEPT !.i = NextPair(@)]
    /\ UNCHANGED <<runTrunc, result, est, nOps, frame, rngs, rngSeed, ctxLog, vqeVars>>

\* the while loop of apply_pairs ends: from start 0 on to start 1, from start 1
\* back to the loop over the layers, depth += 1 in chi_sweep
SweepPairsDone ==
    /\ pos.pc = "pairs"
    /\ ~PairInRange(pos.i, est.n)
    /\ IF pos.start = 0
       THEN /\ pos' = [pos EXCEPT !.start = 1, !.i = 1]
            /\ last' = last
       ELSE /\ pos' = [pos EXCEPT !.pc = "for", !.depth = @ + 1, !.left = @ - 1]
            /\ last' = [last EXCEPT !.full = TRUE]
    /\ UNCHANGED <<psi, rng, runTrunc, result, outLog, est, nOps, frame, rngs, rngSeed,
                   ctxLog, vqeVars>>

\* apply_brickwork_layer of fidelity_sweep: let layer = build_layer_params(n, rng)
SweepBuildLayer ==
    /\ pos.pc = "for" /\ pos.left > 0
    /\ est.driver = "fidelity_sweep"
    /\ \E built \in {build_layer_params(Len(psi), rng)} :
          /\ rng' = built.rng
          /\ pos' = [pos EXCEPT !.pc = "apply", !.layer = built.layer]
    /\ last' = [ks |-> <<>>, full |-> FALSE]
    /\ UNCHANGED <<psi, runTrunc, result, outLog, est, nOps, frame, rngs, rngSeed,
                   ctxLog, vqeVars>>

\* one turn of the loop of apply_layer_params: apply_gate_params(psi, trunc, *gate)
SweepApplyGate ==
    /\ pos.pc = "apply"
    /\ pos.layer # <<>>
    /\ SweepGate(Head(pos.layer))
    /\ pos' = [pos EXCEPT !.layer = Tail(@)]
    /\ UNCHANGED <<rng, runTrunc, result, est, nOps, frame, rngs, rngSeed, ctxLog, vqeVars>>

\* the loop of apply_layer_params ends
SweepLayerApplied ==
    /\ pos.pc = "apply"
    /\ pos.layer = <<>>
    /\ pos' = [pos EXCEPT !.pc = "for", !.depth = @ + 1, !.left = @ - 1]
    /\ last' = [last EXCEPT !.full = TRUE]
    /\ UNCHANGED <<psi, rng, runTrunc, result, outLog, est, nOps, frame, rngs, rngSeed,
                   ctxLog, vqeVars>>

\* the loop over the layers ends; chi_sweep: let chi = chi_max(&psi);
\* rows.push((max_bond, depth, chi, layer_ms)), the time left out
SweepRow ==
    /\ pos.pc = "for" /\ pos.left = 0
    /\ pos' = [pos EXCEPT !.pc = "while"]
    /\ result' = IF est.driver = "chi_sweep"
                 THEN Append(result, [max_bond |-> runTrunc.max_bond, depth |-> pos.depth,
                                      chi |-> chi_max(psi)])
                 ELSE result
    /\ UNCHANGED <<psi, rng, runTrunc, last, outLog, est, nOps, frame, rngs, rngSeed,
                   ctxLog, traj, trng>>

\* the while loop ends: on to the next max_bond, or to write_csv and the return
SweepBondDone ==
    /\ pos.pc = "while"
    /\ pos.depth >= est.depth_max
    /\ pos' = IF pos.bond < Len(est.bonds) THEN [pos EXCEPT !.pc = "bond", !.bond = @ + 1]
              ELSE [pos EXCEPT !.pc = "done"]
    /\ UNCHANGED <<psi, rng, runTrunc, last, result, outLog, est, nOps, frame, rngs,
                   rngSeed, ctxLog, vqeVars>>

NextSweep ==
    \/ SweepParse
    \/ SweepRejectStep
    \/ SweepRejectBonds
    \/ SweepBond
    \/ SweepIter
    \/ SweepLayer
    \/ SweepRandom2q
    \/ SweepPairsDone
    \/ SweepBuildLayer
    \/ SweepApplyGate
    \/ SweepLayerApplied
    \/ SweepRow
    \/ SweepBondDone

SpecSweep == InitSweep /\ [][NextSweep]_vars


\* the pairs of one layer on n sites: k even ascending, then k odd ascending
EvenThenOdd(n) ==
    SelectSeq([m \in 1..(n - 1) |-> m - 1], LAMBDA k : k % 2 = 0)
        \o SelectSeq([m \in 1..(n - 1) |-> m - 1], LAMBDA k : k % 2 = 1)

\* C27: one brickwork layer on an n-site MPS applies a two-qubit gate to every
\* neighbour pair (k, k + 1), 0 <= k <= n - 2, exactly once: first the pairs
\* with even k in increasing order, then those with odd k in increasing
\* order; no gate is applied with k + 1 >= n.
C27_LayerPairsOnce ==
    pos.pc \notin {"parse", "main", "exit"} =>
        /\ \A m \in 1..Len(last.ks) : last.ks[m] + 1 < est.n
        /\ Len(last.ks) <= est.n - 1
        /\ last.ks = SubSeq(EvenThenOdd(est.n), 1, Len(last.ks))
        /\ last.full => last.ks = EvenThenOdd(est.n)
        /\ pos.pc = "apply" =>
              last.ks \o [m \in 1..Len(pos.layer) |-> pos.layer[m].k] = EvenThenOdd(est.n)

\* a layer on 4 sites is complete, in each kind of driver
C27_Witness ==
    /\ pos.pc = "for"
    /\ est.n = 4
    /\ last.full
    /\ last.ks = <<0, 2, 1>>
    /\ pos.depth = 2

\* the gates of the circuit of the seed on n sites from layer on, drawn from
\* r gate by gate: the k-th of a layer is EvenThenOdd(n)[k], its angles
\* rand_angle with the contexts RZ0, RX0, RZ1, RZ2, RX1, RZ3 in turn
RECURSIVE CircuitFrom(_, _, _, _, _)
CircuitFrom(r, n, layers, k, acc) ==
    IF layers = 0 THEN acc
    ELSE IF k > Len(EvenThenOdd(n)) THEN CircuitFrom(r, n, layers - 1, 1, acc)
    ELSE CHOOSE res \in
            {CircuitFrom(d.rng, n, layers, k + 1,
                         Append(acc, [k |-> EvenThenOdd(n)[k], angles |-> d.angles])) :
                d \in {DrawAngles(r, <<RZ0, RX0, RZ1, RZ2, RX1, RZ3>>, <<>>)}} : TRUE

Circuit(seed, n, depth) == CircuitFrom(ONDRngNew(seed), n, depth, 1, <<>>)

\* the circuit of every seed, size and depth of the runs
Circuits ==
    [run \in BrickSeeds \X SweepSizes \X (0..DepthMax) |->
        Circuit(run[1], run[2], run[3])] @@ <<>>

\* C29: for a fixed seed, n and depth the sequence of gate parameters (the
\* pair index k and the six angles drawn with contexts RZ0, RX0, RZ1, RZ2,
\* RX1, RZ3) the brickwork drivers apply is the same for every truncation and
\* MPS state, and the same whether the angles of a layer are drawn before the
\* layer is applied (fidelity_sweep) or gate by gate (chi_sweep, error_sweep).
C29_SameCircuitEveryTruncation ==
    pos.pc \notin {"parse", "main", "exit"} =>
        \E circuit \in {Circuits[<<est.seed, est.n, est.depth_max>>]} :
            /\ Len(outLog) <= Len(circuit)
            /\ outLog = SubSeq(circuit, 1, Len(outLog))
            /\ (pos.pc \in {"while", "bond", "done"} /\ pos.depth >= est.depth_max) =>
                  outLog = circuit
            /\ rng.step = 6 * (Len(outLog) + IF pos.pc = "apply" THEN Len(pos.layer) ELSE 0)

\* fidelity_sweep has built its second state, with max_bond 1 after max_bond
\* 2, of two layers on 4 sites
C29_Witness ==
    /\ pos.pc = "done"
    /\ est.driver = "fidelity_sweep"
    /\ est.n = 4 /\ est.depth_max = 2
    /\ pos.bond = 2
    /\ runTrunc.max_bond = 1
    /\ Len(outLog) = 6
    /\ \E m \in 1..6 : \E t \in 1..6 : outLog[m].angles[t] # outLog[1].angles[1]

\* the rows of the max_bond the run is at
BondRows == SelectSeq(result, LAMBDA row : row.max_bond = est.bonds[pos.bond])

\* the depth of the last row of the max_bond the run is at, 0 before the first
RowDepth == IF BondRows = <<>> THEN 0 ELSE BondRows[Len(BondRows)].depth

CeilDiv(a, b) == (a + b - 1) \div b

\* what is left to do, counted so that every step lessens it: the stage of
\* main, the max_bond values left, the layers left, the place in the layer
SweepRank ==
    LET stage == CASE pos.pc = "parse" -> 2 [] pos.pc = "main" -> 1 [] OTHER -> 0
        bondsLeft == IF pos.pc \in {"parse", "main", "exit"} THEN 0
                     ELSE Len(est.bonds) - pos.bond + (IF pos.pc = "done" THEN 0 ELSE 1)
        depthLeft == CASE pos.pc \in {"parse", "main", "exit", "done"} -> 0
                       [] pos.pc = "bond" -> DepthMax + 1
                       [] OTHER -> est.depth_max - pos.depth
        phase == CASE pos.pc = "for" /\ pos.left = 0 -> 5
                   [] pos.pc = "while" -> 4
                   [] pos.pc = "for" -> 3
                   [] pos.pc = "pairs" /\ pos.start = 0 -> 2
                   [] pos.pc = "apply" -> 2
                   [] pos.pc = "pairs" -> 1
                   [] OTHER -> 0
        sub == CASE pos.pc = "pairs" -> 6 - pos.i
                 [] pos.pc = "apply" -> Len(pos.layer)
                 [] OTHER -> 0
    IN  ((stage * 4 + bondsLeft) * (DepthMax + 2) + depthLeft) * 64 + phase * 8 + sub

\* what C30 says of the states of chi_sweep
ChiSweepExact ==
    (pos.pc # "parse" /\ est.driver = "chi_sweep") =>
        /\ est.depth_step = 0 =>
              /\ pos.pc \in {"main", "exit"}
              /\ psi = <<>> /\ rng = <<>> /\ result = <<>>
        /\ pos.pc \notin {"main", "exit"} =>
              /\ pos.depth <= est.depth_max
              /\ \A r \in 1..Len(BondRows) :
                    /\ BondRows[r].depth = Min(r * est.depth_step, est.depth_max)
                    /\ BondRows[r].depth > (IF r = 1 THEN 0 ELSE BondRows[r - 1].depth)
              /\ pos.pc \in {"for", "pairs"} =>
                    /\ pos.depth + pos.left = Min(RowDepth + est.depth_step, est.depth_max)
                    /\ pos.depth + pos.left > RowDepth
              /\ pos.pc = "while" => pos.depth = RowDepth
              /\ (pos.pc = "while" /\ pos.depth >= est.depth_max) =>
                    /\ pos.depth = est.depth_max
                    /\ Len(BondRows) = CeilDiv(est.depth_max, est.depth_step)

\* C30: in chi_sweep depth_step = 0 is rejected before any simulation; for
\* depth_step > 0 and each max_bond the depth loop ends with depth = depth_max
\* exactly, never beyond it, applying min(depth_step, depth_max - depth) layers
\* an iteration and recording one row an iteration: ceil(depth_max /
\* depth_step) rows of strictly increasing depth.  Every step of the run
\* lessens what is left to do, so the loops end.
C30_DepthLoopEndsExactly == []ChiSweepExact /\ [][SweepRank' < SweepRank]_vars

\* chi_sweep with depth_max = 2 and depth_step = 1 has ended the loop of its
\* second max_bond with two rows for it
C30_Witness ==
    /\ pos.pc = "done"
    /\ est.driver = "chi_sweep"
    /\ est.depth_max = 2 /\ est.depth_step = 1
    /\ pos.bond = 2
    /\ Len(result) = 4
    /\ pos.depth = 2

=============================================================================
